---- MODULE Spec2Model ----
(***************************************************************************)
(* KokoMemo (place-bookmarking app): a model of                            *)
(*   - the localStorage-backed storage module (places, tabs),              *)
(*   - the place form of PlacePage,                                        *)
(*   - searchNearbyPlaces and the SearchPage search pipeline (debounce,    *)
(*     executeSearch, merge of nearby and autocomplete results),           *)
(*   - SearchPage's initial-location effect and the search history,        *)
(*   - InteractiveMap: location smoothing, device heading, long press.     *)
(* Strings that the code trims are sequences of one-character strings.     *)
(***************************************************************************)
EXTENDS Integers, Sequences, FiniteSets

VARIABLES
    \* ---- storage module (localStorage + module memory) ----
    storedTabs,      \* localStorage['kokomemo_tabs'] parsed; <<>> when the key is absent
    defaultTabsMem,  \* the DEFAULT_TABS array object held in module memory
    places,          \* localStorage['kokomemo_places'] parsed; <<>> when absent
    tabUuids,        \* number of uuidv4() values drawn for tabs
    placeUuids,      \* number of uuidv4() values drawn for places
    clock,           \* the wall clock read by new Date().toISOString()
    lastOp,          \* the call performed last: its name and the kind of id it was given
    ret,             \* what that call returned
    \* ---- storage module: search history ----
    searchHistory,   \* localStorage[SEARCH_HISTORY]: the entries, newest first
    lastAdded,       \* <<>> or <<the query of the last addSearchHistory call>>
    historyCalls,    \* calls made so far: new queries, queries added again, clears
    \* ---- PlacePage form ----
    pageId,          \* the :id route parameter of PlacePage: "new" or a place id
    form,            \* the form fields: name, memo, address, latitude, longitude, tabId
    formErrors,      \* the `errors` state: the set of fields with an error message
    route,           \* the screen shown: "place", or "home" after navigate('/')
    \* ---- maps.ts ----
    nearbyCall,      \* searchNearbyPlaces' last call: its location and the API's response
    \* ---- SearchPage ----
    apiKey,          \* GOOGLE_MAPS_API_KEY of the build: "" when not configured
    query,           \* the `query` state
    queryRef,        \* queryRef.current
    suggestions,     \* the `suggestions` state
    isSearching,     \* the `isSearching` state
    mapPosition,     \* the `mapPosition` state: Null or [lat, lng]
    mapPositionRef,  \* mapPositionRef.current
    debounceRef,     \* debounceRef.current: Null or the id window.setTimeout returned
    timers,          \* the browser's pending debounce timers: id, value, ms left
    timersCreated,   \* number of window.setTimeout calls so far (ids are 1, 2, ...)
    searches,        \* executeSearch invocations suspended at an await, oldest first
    merged,          \* the locals of the executeSearch invocation that stored last
    lastInput,       \* the last handleInputChange / handleQuickSearch call
    sinceInput,      \* ms elapsed since that call, counted up to DEBOUNCE_MS
    isLoadingInitialLocation, \* the `isLoadingInitialLocation` state
    isMounted,       \* the closure variable isMounted of the initial-location effect
    positionSet,     \* the closure variable positionSet
    locationTimeout, \* the 3-second timer: pending with ms left, fired, or cleared
    geolocation,     \* the call getCurrentPosition() is awaiting, or "done"
    positionAssignments, \* setMapPosition calls made by the initial-location effect
    \* ---- InteractiveMap: location smoothing ----
    currentLocation,    \* the `currentLocation` state: Null or [lat, lng]
    smoothLocation,     \* the `smoothLocation` state: Null or [lat, lng]
    targetLocationRef,  \* targetLocationRef.current
    animationFrameRef,  \* animationFrameRef.current: NoFrame or a frame id
    frames,             \* the ids of the animation frames requested and not yet run
    fixCount,           \* number of positions watchPosition has delivered
    \* ---- InteractiveMap: long press ----
    touches,            \* the touch points on the screen, oldest first: id, target, x, y
    isPressing,         \* the closure variable isPressing
    pressStartPos,      \* the closure variable pressStartPos
    longPressTimerRef,  \* longPressTimerRef.current: NoTimer or a timer id
    pressTimers,        \* the pending long-press timers, with the press each belongs to
    marker,             \* the position of the pin: Null or a screen point
    isLoadingLocation,  \* the `isLoadingLocation` state
    \* ---- InteractiveMap: device heading ----
    heading,            \* the `heading` state: Null or Number(degrees)
    hasOrientationSensor, \* the `hasOrientationSensor` state
    absoluteSupported,  \* the closure variable absoluteSupported
    permissionApi,      \* DeviceOrientationEvent.requestPermission is a function
    orientationListeners, \* the orientation listeners added to window
    headingEffectRan,   \* the heading effect has run
    absoluteReceived    \* a listener has been handed a deviceorientationabsolute event

storageVars == <<storedTabs, defaultTabsMem, places, tabUuids, placeUuids, clock, lastOp, ret>>
formVars == <<pageId, form, formErrors, route>>
historyVars == <<searchHistory, lastAdded, historyCalls>>
dataVars == <<storedTabs, defaultTabsMem, places, tabUuids, placeUuids, clock, historyVars>>
locationVars == <<isLoadingInitialLocation, isMounted, positionSet, locationTimeout,
                  geolocation, positionAssignments>>
searchInputVars == <<query, queryRef, suggestions, isSearching, debounceRef, timers,
                     timersCreated, searches, merged, lastInput, sinceInput>>
searchPageVars == <<query, queryRef, suggestions, isSearching, mapPosition, mapPositionRef,
                    debounceRef, timers, timersCreated, searches, merged, lastInput,
                    sinceInput, locationVars>>
searchVars == <<nearbyCall, apiKey, searchPageVars>>
smoothVars == <<currentLocation, smoothLocation, targetLocationRef, animationFrameRef, frames,
                fixCount>>
pressVars == <<touches, isPressing, pressStartPos, longPressTimerRef, pressTimers, marker,
               isLoadingLocation>>
headingVars == <<heading, hasOrientationSensor, absoluteSupported, permissionApi,
                 orientationListeners, headingEffectRan, absoluteReceived>>
mapVars == <<smoothVars, pressVars, headingVars>>
vars == <<storedTabs, defaultTabsMem, places, tabUuids, placeUuids, clock, lastOp, ret,
          searchHistory, lastAdded, historyCalls,
          pageId, form, formErrors, route,
          nearbyCall, apiKey, query, queryRef, suggestions, isSearching, mapPosition,
          mapPositionRef, debounceRef, timers, timersCreated, searches, merged,
          lastInput, sinceInput,
          isLoadingInitialLocation, isMounted, positionSet, locationTimeout, geolocation,
          positionAssignments,
          currentLocation, smoothLocation, targetLocationRef, animationFrameRef, frames,
          fixCount,
          touches, isPressing, pressStartPos, longPressTimerRef, pressTimers, marker,
          isLoadingLocation,
          heading, hasOrientationSensor, absoluteSupported, permissionApi,
          orientationListeners, headingEffectRan, absoluteReceived>>

----------------------------------------------------------------------------
(* Bounds of the model *)
MaxTabAdds == 6        \* uuids drawn for tabs in SpecTabs
MaxPlaceTabAdds == 2   \* uuids drawn for tabs in SpecTabPlaces
MaxTabPlaces == 2      \* places saved in SpecTabPlaces
MaxPlaceAdds == 2      \* places saved in SpecPlaces
MaxClock == 1          \* clock ticks
MaxFormSaves == 1      \* places saved in SpecForm
MaxNameLen == 2        \* characters typed into the name field
MaxApiPlaces == 3      \* places in a response given to searchNearbyPlaces
MaxTimers == 3         \* window.setTimeout calls in SpecDebounce
MaxInFlight == 2       \* executeSearch invocations suspended at once in SpecDebounce
MaxMergeInFlight == 1  \* executeSearch invocations suspended at once in SpecMerge
MaxMergeTimers == 1    \* window.setTimeout calls in SpecMerge
TickMs == 400          \* the step by which time advances
MaxQueries == 21       \* distinct queries added to the search history
MaxOtherCalls == 2     \* addSearchHistory calls with a stored query, and clearSearchHistory calls
MaxFixes == 3          \* positions delivered by watchPosition
MaxTouches == 2        \* fingers on the screen at once

----------------------------------------------------------------------------
(* Generic helpers *)

Range(s) == {s[i] : i \in 1..Len(s)}

Null == [kind |-> "null"]
BoolRet(b) == [kind |-> "bool", val |-> b]
ValRet(v) == [kind |-> "value", val |-> v]
Undefined == [kind |-> "undefined"]

----------------------------------------------------------------------------
(* types.ts : DEFAULT_TABS *)

Tab(id, name, isCustom, order) ==
    [id |-> id, name |-> name, isCustom |-> isCustom, order |-> order]

DEFAULT_TABS ==
    << Tab("all", "subete", FALSE, 0),
       Tab("frequent", "yoku iku", FALSE, 1),
       Tab("planned", "kondo iku", FALSE, 2),
       Tab("revisit", "mata kuru", FALSE, 3),
       Tab("work", "shigoto", FALSE, 4),
       Tab("rest", "kyuukei basho", FALSE, 5),
       Tab("convenience", "konbini", FALSE, 6),
       Tab("toilet", "toire", FALSE, 7),
       Tab("other", "sonota", FALSE, 8) >>

DefaultTabIds == {DEFAULT_TABS[i].id : i \in 1..Len(DEFAULT_TABS)}

(* uuidv4(): the n-th value drawn; values never repeat *)
TabUuidPool == <<"t1", "t2", "t3", "t4", "t5", "t6", "t7", "t8", "t9", "t10">>
PlaceUuidPool == <<"p1", "p2", "p3", "p4", "p5">>
TabUuid(n) == TabUuidPool[n]
PlaceUuid(n) == PlaceUuidPool[n]

----------------------------------------------------------------------------
(* storage.ts : tabs *)

\* Array.prototype.sort((a, b) => a.order - b.order) is stable: element i comes
\* after every element of smaller order and after the earlier elements of equal order.
OrderRank(s, i) ==
    Cardinality({j \in 1..Len(s) :
        s[j].order < s[i].order \/ (s[j].order = s[i].order /\ j <= i)})

SortByOrder(s) ==
    [k \in 1..Len(s) |-> s[CHOOSE i \in 1..Len(s) : OrderRank(s, i) = k]]

\* Math.max(...tabs.map((t) => t.order))
MaxOrder(s) ==
    CHOOSE m \in {s[i].order : i \in 1..Len(s)} : \A i \in 1..Len(s) : s[i].order <= m

TabIds(s) == {s[i].id : i \in 1..Len(s)}
CustomTabsOf(s) == SelectSeq(s, LAMBDA t : t.isCustom)
MaxCustomTabsOffByOne == 5 + 1
MAX_CUSTOM_TABS == 5

\* getTabs(): the array returned, the value left in localStorage, and whether the
\* array returned is the DEFAULT_TABS object itself (line 154 returns it, no copy).
GetTabsMerge(stored, mem, newDefaultTabs) ==
    IF Len(newDefaultTabs) > 0
    THEN LET mergedTabs == SortByOrder(stored \o newDefaultTabs)
         IN  [tabs |-> mergedTabs, stored |-> mergedTabs, aliased |-> FALSE]
    ELSE [tabs |-> stored, stored |-> stored, aliased |-> FALSE]

GetTabs(stored, mem) ==
    IF Len(stored) = 0
    THEN [tabs |-> mem, stored |-> mem, aliased |-> TRUE]
    ELSE CHOOSE g \in
            { GetTabsMerge(stored, mem, newDefaultTabs) :
                newDefaultTabs \in
                    { SelectSeq(mem, LAMBDA t : t.id \notin existingIds) :
                        existingIds \in {TabIds(stored)} } } : TRUE

Called(name, target) == [name |-> name, target |-> target]

\* the kind of tab an id names in a tab list: "default", "custom" or "unknown"
TargetKind(tabs, id) ==
    IF \E i \in 1..Len(tabs) : tabs[i].id = id /\ tabs[i].isCustom THEN "custom"
    ELSE IF \E i \in 1..Len(tabs) : tabs[i].id = id THEN "default"
    ELSE "unknown"

\* What a getTabs() call made now would return.
TabsShown == GetTabs(storedTabs, defaultTabsMem).tabs

getTabs ==
    \E g \in {GetTabs(storedTabs, defaultTabsMem)} :
        /\ storedTabs' = g.stored
        /\ lastOp' = Called("getTabs", "none")
        /\ ret' = ValRet(g.tabs)
        /\ UNCHANGED <<defaultTabsMem, places, tabUuids, placeUuids, clock>>

addCustomTab(name) ==
    \E g \in {GetTabs(storedTabs, defaultTabsMem)} :
    LET tabs == g.tabs
        customTabs == CustomTabsOf(tabs)
    IN  /\ lastOp' = Called("addCustomTab", "none")
        /\ IF Len(customTabs) >= MAX_CUSTOM_TABS
           THEN /\ storedTabs' = g.stored
                /\ ret' = Null
                /\ UNCHANGED <<defaultTabsMem, tabUuids>>
           ELSE /\ LET newTab == Tab(TabUuid(tabUuids + 1), name, TRUE, MaxOrder(tabs) + 1)
                       pushed == Append(tabs, newTab)
                   IN  /\ storedTabs' = pushed
                       \* tabs.push(newTab) changes DEFAULT_TABS when tabs is that object
                       /\ defaultTabsMem' = IF g.aliased THEN pushed ELSE defaultTabsMem
                       /\ ret' = ValRet(newTab)
                /\ tabUuids' = tabUuids + 1
        /\ UNCHANGED <<places, placeUuids, clock>>

\* findIndex((t) => t.id === id) without the isCustom test
updateTabAnyTab(id, name) ==
    \E g \in {GetTabs(storedTabs, defaultTabsMem)} :
    LET tabs == g.tabs
        hits == {i \in 1..Len(tabs) : tabs[i].id = id}
    IN  /\ lastOp' = Called("updateTab", TargetKind(tabs, id))
        /\ IF hits = {}
           THEN /\ storedTabs' = g.stored
                /\ ret' = Null
                /\ UNCHANGED defaultTabsMem
           ELSE LET index == CHOOSE i \in hits : \A j \in hits : i <= j
                    updated == [tabs EXCEPT ![index] = [tabs[index] EXCEPT !.name = name]]
                IN  /\ storedTabs' = updated
                    /\ defaultTabsMem' = IF g.aliased THEN updated ELSE defaultTabsMem
                    /\ ret' = ValRet(updated[index])
        /\ UNCHANGED <<places, tabUuids, placeUuids, clock>>

updateTab(id, name) ==
    \E g \in {GetTabs(storedTabs, defaultTabsMem)} :
    LET tabs == g.tabs
        hits == {i \in 1..Len(tabs) : tabs[i].id = id /\ tabs[i].isCustom}
    IN  /\ lastOp' = Called("updateTab", TargetKind(tabs, id))
        /\ IF hits = {}
           THEN /\ storedTabs' = g.stored
                /\ ret' = Null
                /\ UNCHANGED defaultTabsMem
           ELSE LET index == CHOOSE i \in hits : \A j \in hits : i <= j
                    updated == [tabs EXCEPT ![index] = [tabs[index] EXCEPT !.name = name]]
                IN  /\ storedTabs' = updated
                    \* tabs[index] = ... writes into DEFAULT_TABS when tabs is that object
                    /\ defaultTabsMem' = IF g.aliased THEN updated ELSE defaultTabsMem
                    /\ ret' = ValRet(updated[index])
        /\ UNCHANGED <<places, tabUuids, placeUuids, clock>>

FREQUENT_TAB == "frequent"

MovePlace(p, id, now) ==
    IF p.tabId = id THEN [p EXCEPT !.tabId = FREQUENT_TAB, !.updatedAt = now] ELSE p

deleteTab(id) ==
    \E g \in {GetTabs(storedTabs, defaultTabsMem)} :
    LET tabs == g.tabs
        found == {i \in 1..Len(tabs) : tabs[i].id = id}
    IN  /\ lastOp' = Called("deleteTab", TargetKind(tabs, id))
        /\ IF found = {} \/ ~tabs[CHOOSE i \in found : \A j \in found : i <= j].isCustom
           THEN /\ storedTabs' = g.stored
                /\ ret' = BoolRet(FALSE)
                /\ UNCHANGED places
           ELSE /\ storedTabs' = SelectSeq(tabs, LAMBDA t : t.id # id)
                /\ places' = [i \in 1..Len(places) |-> MovePlace(places[i], id, clock)]
                /\ ret' = BoolRet(TRUE)
        /\ UNCHANGED <<defaultTabsMem, tabUuids, placeUuids, clock>>

----------------------------------------------------------------------------
(* storage.ts : places *)

PlaceIds(s) == {s[i].id : i \in 1..Len(s)}

\* the new place filed under the default tab instead of place.tabId
NewPlaceDefaultTab(p, id, now) ==
    [id |-> id, name |-> p.name, memo |-> p.memo, address |-> p.address,
     latitude |-> p.latitude, longitude |-> p.longitude, tabId |-> "frequent",
     createdAt |-> now, updatedAt |-> now]

\* { ...place, id: uuidv4(), createdAt: now, updatedAt: now }
NewPlace(p, id, now) ==
    [id |-> id, name |-> p.name, memo |-> p.memo, address |-> p.address,
     latitude |-> p.latitude, longitude |-> p.longitude, tabId |-> p.tabId,
     createdAt |-> now, updatedAt |-> now]

\* getPlaceById(id): Array.prototype.find, the first match or undefined
GetPlaceById(s, id) ==
    LET hits == {i \in 1..Len(s) : s[i].id = id}
    IN  IF hits = {} THEN Undefined
        ELSE ValRet(s[CHOOSE i \in hits : \A j \in hits : i <= j])

savePlace(p) ==
    /\ LET newPlace == NewPlace(p, PlaceUuid(placeUuids + 1), clock)
       IN  /\ places' = Append(places, newPlace)
           /\ ret' = ValRet(newPlace)
    /\ placeUuids' = placeUuids + 1
    /\ lastOp' = Called("savePlace", "none")
    /\ UNCHANGED <<storedTabs, defaultTabsMem, tabUuids, clock>>

UpdatableFields == {"name", "memo", "address", "latitude", "longitude", "tabId", "updatedAt"}

\* the spread with createdAt taken from the clock as well
ApplyUpdatesNewCreatedAt(p, u, now) ==
    LET pick(f) == IF f \in u.fields THEN u.vals[f] ELSE p[f]
    IN  [id |-> p.id, name |-> pick("name"), memo |-> pick("memo"),
         address |-> pick("address"), latitude |-> pick("latitude"),
         longitude |-> pick("longitude"), tabId |-> pick("tabId"),
         createdAt |-> now, updatedAt |-> now]

\* { ...places[index], ...updates, updatedAt: now }; u.fields are the keys present
\* in `updates`, u.vals their values
ApplyUpdates(p, u, now) ==
    LET pick(f) == IF f \in u.fields THEN u.vals[f] ELSE p[f]
    IN  [id |-> p.id, name |-> pick("name"), memo |-> pick("memo"),
         address |-> pick("address"), latitude |-> pick("latitude"),
         longitude |-> pick("longitude"), tabId |-> pick("tabId"),
         createdAt |-> p.createdAt, updatedAt |-> now]

updatePlace(id, u) ==
    LET hits == {i \in 1..Len(places) : places[i].id = id}
    IN  /\ IF hits = {}
           THEN /\ ret' = Null
                /\ UNCHANGED places
           ELSE LET index == CHOOSE i \in hits : \A j \in hits : i <= j
                    updatedPlace == ApplyUpdates(places[index], u, clock)
                IN  /\ places' = [places EXCEPT ![index] = updatedPlace]
                    /\ ret' = ValRet(updatedPlace)
        /\ lastOp' = Called("updatePlace", IF hits = {} THEN "unknown" ELSE "stored")
        /\ UNCHANGED <<storedTabs, defaultTabsMem, tabUuids, placeUuids, clock>>

\* deletePlace answering true whether or not a place was removed
deletePlaceAnswersTrue(id) ==
    LET filtered == SelectSeq(places, LAMBDA p : p.id # id)
    IN  /\ places' = filtered
        /\ ret' = BoolRet(TRUE)
        /\ lastOp' = Called("deletePlace", IF id \in PlaceIds(places) THEN "stored" ELSE "unknown")
        /\ UNCHANGED <<storedTabs, defaultTabsMem, tabUuids, placeUuids, clock>>

deletePlace(id) ==
    LET filtered == SelectSeq(places, LAMBDA p : p.id # id)
    IN  /\ IF Len(filtered) = Len(places)
           THEN /\ ret' = BoolRet(FALSE)
                /\ UNCHANGED places
           ELSE /\ places' = filtered
                /\ ret' = BoolRet(TRUE)
        /\ lastOp' = Called("deletePlace", IF id \in PlaceIds(places) THEN "stored" ELSE "unknown")
        /\ UNCHANGED <<storedTabs, defaultTabsMem, tabUuids, placeUuids, clock>>

\* time passes between two calls
ClockTick ==
    /\ clock < MaxClock
    /\ clock' = clock + 1
    /\ lastOp' = Called("tick", "none")
    /\ ret' = Undefined
    /\ UNCHANGED <<storedTabs, defaultTabsMem, places, tabUuids, placeUuids>>

\* the page is loaded again: module memory is fresh, localStorage is kept
Reload ==
    /\ defaultTabsMem # DEFAULT_TABS
    /\ defaultTabsMem' = DEFAULT_TABS
    /\ lastOp' = Called("reload", "none")
    /\ ret' = Undefined
    /\ UNCHANGED <<storedTabs, places, tabUuids, placeUuids, clock>>

----------------------------------------------------------------------------
(* storage.ts : the search history                                          *)
(* A query is a string; the model writes the n-th distinct query typed as   *)
(* the number n.  placeId is <<>> when the argument is left out.            *)

SEARCH_HISTORY_LIMIT == 20

getSearchHistory == searchHistory

\* history.filter that keeps every entry
WithoutQueryKeepAll(history, text) == history

\* history.filter((h) => h.query !== query)
WithoutQuery(history, text) == SelectSeq(history, LAMBDA h : h.query # text)

\* slice(0, n)
Slice(s, n) == SubSeq(s, 1, IF Len(s) < n THEN Len(s) ELSE n)

addSearchHistory(text, placeId) ==
    /\ \E filtered \in {WithoutQuery(getSearchHistory, text)} :
        searchHistory' =
            Slice(<<[query |-> text, placeId |-> placeId, timestamp |-> clock]>> \o filtered,
                  SEARCH_HISTORY_LIMIT)
    /\ lastAdded' = <<text>>
    /\ lastOp' = Called("addSearchHistory", text)
    /\ ret' = Undefined

clearSearchHistory ==
    /\ searchHistory' = <<>>
    /\ lastOp' = Called("clearSearchHistory", "none")
    /\ ret' = Undefined
    /\ UNCHANGED lastAdded

----------------------------------------------------------------------------
(* PlacePage.tsx : the place form *)

RECURSIVE TrimStart(_)
RECURSIVE TrimEnd(_)

WhiteSpace == {" "}

\* String.prototype.trim() on a string given as its sequence of characters
TrimStart(str) ==
    IF str # <<>> /\ Head(str) \in WhiteSpace THEN TrimStart(Tail(str)) ELSE str

TrimEnd(str) ==
    IF str # <<>> /\ str[Len(str)] \in WhiteSpace
    THEN TrimEnd(SubSeq(str, 1, Len(str) - 1)) ELSE str

Trim(str) == TrimEnd(TrimStart(str))

\* the useState initial values
EmptyForm ==
    [name |-> <<>>, memo |-> <<>>, address |-> "", latitude |-> 0, longitude |-> 0,
     tabId |-> "frequent"]

\* mounting the page for route /place/:id; loadData fills the form
OpenPlacePage(id) ==
    /\ route = "home"
    /\ IF id = "new"
       THEN /\ form' = EmptyForm
            /\ route' = "place"
       ELSE \E place \in {GetPlaceById(places, id)} :
            IF place # Undefined
            THEN /\ form' = [name |-> place.val.name, memo |-> place.val.memo,
                             address |-> place.val.address,
                             latitude |-> place.val.latitude,
                             longitude |-> place.val.longitude,
                             tabId |-> place.val.tabId]
                 /\ route' = "place"
            ELSE /\ form' = EmptyForm
                 /\ route' = "home"
    /\ pageId' = id
    /\ formErrors' = {}
    /\ lastOp' = Called("openPlacePage", "none")
    /\ ret' = Undefined
    /\ UNCHANGED <<storedTabs, defaultTabsMem, places, tabUuids, placeUuids, clock>>

\* onChange of the name input
SetName(value) ==
    /\ route = "place"
    /\ form' = [form EXCEPT !.name = value]
    /\ lastOp' = Called("setName", "none")
    /\ ret' = Undefined
    /\ UNCHANGED <<storedTabs, defaultTabsMem, places, tabUuids, placeUuids, clock,
                   pageId, formErrors, route>>

\* the test !name instead of !name.trim()
ValidateUntrimmed(f) == IF f.name = <<>> THEN {"name"} ELSE {}

\* validate(): the errors it sets
Validate(f) == IF Trim(f.name) = <<>> THEN {"name"} ELSE {}

SavePayload(f) ==
    [name |-> Trim(f.name), memo |-> Trim(f.memo), address |-> f.address,
     latitude |-> f.latitude, longitude |-> f.longitude, tabId |-> f.tabId]

FormUpdates(f) ==
    [fields |-> {"name", "memo", "address", "latitude", "longitude", "tabId"},
     vals |-> SavePayload(f)]

handleSave ==
    /\ route = "place"
    /\ formErrors' = Validate(form)
    /\ IF Validate(form) # {}
       THEN /\ lastOp' = Called("handleSave", "invalid")
            /\ ret' = Undefined
            /\ UNCHANGED <<storedTabs, defaultTabsMem, places, tabUuids, placeUuids, clock,
                           route>>
       ELSE /\ IF pageId = "new"
               THEN savePlace(SavePayload(form))
               ELSE updatePlace(pageId, FormUpdates(form))
            /\ route' = "home"
    /\ UNCHANGED <<pageId, form>>

----------------------------------------------------------------------------
(* maps.ts : searchAutocomplete, calculateDistance, searchNearbyPlaces *)

\* What a fetch of a Places endpoint comes to:
\*   "nofetch"   typeof fetch === 'undefined'
\*   "failed"    fetch rejects (network error, or the 5 s abort)
\*   "httpError" !response.ok
\*   "noList"    a body without the `suggestions` / `places` member
\*   "ok"        a body whose list is `list`
ApiResponse(kind, list) == [kind |-> kind, list |-> list]

NoDistance == 0 - 1     \* distanceMeters?: number left undefined

\* one element of data.suggestions
QueryPrediction == [placePrediction |-> Null]
PlacePrediction(placeId, mainText, text, distanceMeters) ==
    [placePrediction |->
        [placeId |-> placeId, structuredMainText |-> mainText, text |-> text,
         structuredSecondaryText |-> "", distanceMeters |-> distanceMeters]]

AutocompleteResult(s) ==
    [placeId |-> s.placePrediction.placeId,
     mainText |-> IF s.placePrediction.structuredMainText # ""
                  THEN s.placePrediction.structuredMainText
                  ELSE s.placePrediction.text,
     secondaryText |-> s.placePrediction.structuredSecondaryText,
     distanceMeters |-> s.placePrediction.distanceMeters]

searchAutocomplete(input, response) ==
    IF Trim(input) = <<>> \/ response.kind = "nofetch" THEN <<>>
    ELSE IF response.kind # "ok" THEN <<>>
    ELSE LET predictions == SelectSeq(response.list, LAMBDA s : s.placePrediction # Null)
         IN  [i \in 1..Len(predictions) |-> AutocompleteResult(predictions[i])]

Abs(x) == IF x < 0 THEN 0 - x ELSE x

\* R * pi / 180 to the metre: the length of one degree of a great circle
MetersPerDegree == 111195

\* the haversine distance, to the metre, between points on different meridians
OffMeridianMeters(lat1, lng1, lat2, lng2) ==
    IF <<lat1, lng1, lat2, lng2>> = <<35, 140, 0, 0>> THEN 14329292
    ELSE IF <<lat1, lng1, lat2, lng2>> = <<36, 140, 0, 0>> THEN 14266016
    ELSE 14201712   \* <<37, 140, 0, 0>>

\* Coordinates are whole degrees.  With dLng = 0 the formula reduces to
\* a = sin(dLat/2)^2, so the distance is R * |dLat| in radians.
calculateDistance(lat1, lng1, lat2, lng2) ==
    IF lng1 = lng2 THEN MetersPerDegree * Abs(lat2 - lat1)
    ELSE OffMeridianMeters(lat1, lng1, lat2, lng2)

\* one element of data.places; a member the body lacks is "" / <<>> / Null.
\* A place id is a sequence of tokens, "places/" being one token.
ApiPlace(id, name, location) ==
    [id |-> id, displayName |-> name, formattedAddress |-> "addr", location |-> location]
LatLng(lat, lng) == [latitude |-> lat, longitude |-> lng]

\* (place.id || '').replace(/^places\//, '')
NormalizePlaceId(id) == IF id # <<>> /\ Head(id) = "places/" THEN Tail(id) ELSE id

\* place.location?.latitude || 0
LatitudeOf(place) == IF place.location = Null THEN 0 ELSE place.location.latitude
LongitudeOf(place) == IF place.location = Null THEN 0 ELSE place.location.longitude

NearbyPlaceResult(location, place) ==
    [placeId |-> NormalizePlaceId(place.id),
     name |-> place.displayName,
     address |-> place.formattedAddress,
     latitude |-> LatitudeOf(place),
     longitude |-> LongitudeOf(place),
     distanceMeters |-> calculateDistance(location.lat, location.lng,
                                          LatitudeOf(place), LongitudeOf(place))]

\* the list as the API ordered it
KeepApiOrder(s) == s

\* .sort((a, b) => a.distanceMeters - b.distanceMeters), a stable sort
DistanceRank(s, i) ==
    Cardinality({j \in 1..Len(s) :
        \/ s[j].distanceMeters < s[i].distanceMeters
        \/ (s[j].distanceMeters = s[i].distanceMeters /\ j <= i)})

SortByDistance(s) ==
    [k \in 1..Len(s) |-> s[CHOOSE i \in 1..Len(s) : DistanceRank(s, i) = k]]

\* the nearby search that returns the farthest place first
searchNearbyPlacesFarthestFirst(location, response) ==
    IF response.kind # "ok" THEN <<>>
    ELSE CHOOSE r \in { [k \in 1..Len(s) |-> s[Len(s) + 1 - k]] :
            s \in { SortByDistance(m) :
                m \in { [i \in 1..Len(response.list) |->
                            NearbyPlaceResult(location, response.list[i])] } } } : TRUE

searchNearbyPlaces(location, response) ==
    IF response.kind # "ok" THEN <<>>
    ELSE CHOOSE r \in { SortByDistance(m) :
            m \in { [i \in 1..Len(response.list) |->
                        NearbyPlaceResult(location, response.list[i])] } } : TRUE

\* searchNearbyPlaces called with the location and the response of nearbyCall
searchNearbyPlacesCall ==
    /\ ret' = ValRet(searchNearbyPlaces(nearbyCall.location, nearbyCall.response))
    /\ lastOp' = Called("searchNearbyPlaces", nearbyCall.response.kind)
    /\ UNCHANGED <<dataVars, nearbyCall>>

----------------------------------------------------------------------------
(* SearchPage.tsx : the debounced input, executeSearch and its merge *)
(* A handler's step includes the render it causes and that render's effects, *)
(* which copy `query` to queryRef and `mapPosition` to mapPositionRef.       *)

DEBOUNCE_MS == 800
NoTimer == 0            \* debounceRef.current === null
DEFAULT_POSITION == [lat |-> 36, lng |-> 140]   \* Tokyo station, in whole degrees

NearbyIds(nearbyResults) == {nearbyResults[i].placeId : i \in 1..Len(nearbyResults)}

NearbySuggestion(r) ==
    [text |-> r.name, description |-> r.address, placeId |-> r.placeId,
     distanceMeters |-> r.distanceMeters]

AutocompleteSuggestion(r) ==
    [text |-> r.mainText, description |-> r.secondaryText, placeId |-> r.placeId,
     distanceMeters |-> r.distanceMeters]

NearbySuggestions(nearbyResults) ==
    [i \in 1..Len(nearbyResults) |-> NearbySuggestion(nearbyResults[i])]

\* the autocomplete results with none filtered out
AutocompleteSuggestionsUnfiltered(autocompleteResults, nearbyIds) ==
    [i \in 1..Len(autocompleteResults) |-> AutocompleteSuggestion(autocompleteResults[i])]

AutocompleteSuggestions(autocompleteResults, nearbyIds) ==
    LET kept == SelectSeq(autocompleteResults, LAMBDA r : r.placeId \notin nearbyIds)
    IN  [i \in 1..Len(kept) |-> AutocompleteSuggestion(kept[i])]

\* the autocomplete suggestions put first
MergeAutocompleteFirst(nearbyResults, autocompleteResults) ==
    AutocompleteSuggestions(autocompleteResults, NearbyIds(nearbyResults))
        \o NearbySuggestions(nearbyResults)

\* [...nearbySuggestions, ...autocompleteSuggestions]
MergeSuggestions(nearbyResults, autocompleteResults) ==
    NearbySuggestions(nearbyResults)
        \o AutocompleteSuggestions(autocompleteResults, NearbyIds(nearbyResults))

RemoveAt(s, i) == SubSeq(s, 1, i - 1) \o SubSeq(s, i + 1, Len(s))

\* executeSearch(searchQuery) up to its first await; `searching` is the value
\* of isSearching its caller has set
executeSearch(searchQuery, searching) ==
    IF apiKey = ""
    THEN /\ isSearching' = FALSE
         /\ UNCHANGED searches
    ELSE /\ isSearching' = searching
         /\ searches' = Append(searches,
                [q |-> searchQuery, origin |-> mapPositionRef, pc |-> "autocomplete",
                 autocompleteResults |-> <<>>])

\* step 3 and 4 of executeSearch, and its finally block
StoreMerged(i, nearbyResults, autocompleteResults) ==
    /\ suggestions' = MergeSuggestions(nearbyResults, autocompleteResults)
    /\ merged' = [q |-> searches[i].q, nearbyResults |-> nearbyResults,
                  autocompleteResults |-> autocompleteResults]
    /\ isSearching' = FALSE
    /\ searches' = RemoveAt(searches, i)
    /\ lastOp' = Called("executeSearch", "stored")

\* the return at a queryRef check, and the finally block
ReturnSuperseded(i) ==
    /\ isSearching' = FALSE
    /\ searches' = RemoveAt(searches, i)
    /\ lastOp' = Called("executeSearch", "superseded")
    /\ UNCHANGED <<suggestions, merged>>

\* `await searchAutocomplete(...)` resumes in invocation i
autocompleteReturns(i, response) ==
    /\ i \in 1..Len(searches)
    /\ searches[i].pc = "autocomplete"
    /\ \E s \in {searches[i]} : \E results \in {searchAutocomplete(s.q, response)} :
        IF queryRef # s.q
        THEN ReturnSuperseded(i)
        ELSE IF s.origin # Null
        THEN /\ searches' = [searches EXCEPT
                                ![i] = [s EXCEPT !.pc = "nearby",
                                                 !.autocompleteResults = results]]
             /\ lastOp' = Called("executeSearch", "awaitNearby")
             /\ UNCHANGED <<suggestions, merged, isSearching>>
        ELSE StoreMerged(i, <<>>, results)
    /\ ret' = Undefined
    /\ UNCHANGED <<query, queryRef, mapPosition, mapPositionRef, debounceRef, timers,
                   timersCreated, lastInput, sinceInput>>

\* `await searchNearbyPlaces(...)` resumes in invocation i
nearbyReturns(i, response) ==
    /\ i \in 1..Len(searches)
    /\ searches[i].pc = "nearby"
    /\ \E s \in {searches[i]} : \E results \in {searchNearbyPlaces(s.origin, response)} :
        IF queryRef # s.q
        THEN ReturnSuperseded(i)
        ELSE StoreMerged(i, results, s.autocompleteResults)
    /\ ret' = Undefined
    /\ UNCHANGED <<query, queryRef, mapPosition, mapPositionRef, debounceRef, timers,
                   timersCreated, lastInput, sinceInput>>

\* clearTimeout(debounceRef.current): the timers left pending
ClearTimeout(pending, id) == {t \in pending : t.id # id}

\* handleInputChange without its clearTimeout
handleInputChangeNoClear(value) ==
    /\ query' = value
    /\ queryRef' = value
    /\ IF Trim(value) = <<>>
       THEN /\ suggestions' = <<>>
            /\ isSearching' = FALSE
            /\ lastOp' = Called("handleInputChange", "blank")
            /\ UNCHANGED <<debounceRef, timersCreated, timers>>
       ELSE /\ isSearching' = TRUE
            /\ timersCreated' = timersCreated + 1
            /\ debounceRef' = timersCreated + 1
            /\ timers' = timers \cup
                    {[id |-> timersCreated + 1, value |-> value, left |-> DEBOUNCE_MS]}
            /\ lastOp' = Called("handleInputChange", "debounced")
            /\ UNCHANGED suggestions
    /\ lastInput' = [fn |-> "handleInputChange", value |-> value]
    /\ sinceInput' = 0
    /\ ret' = Undefined
    /\ UNCHANGED <<mapPosition, mapPositionRef, searches, merged>>

handleInputChange(value) ==
    /\ query' = value
    /\ queryRef' = value
    /\ IF Trim(value) = <<>>
       THEN /\ timers' = ClearTimeout(timers, debounceRef)
            /\ suggestions' = <<>>
            /\ isSearching' = FALSE
            /\ lastOp' = Called("handleInputChange", "blank")
            /\ UNCHANGED <<debounceRef, timersCreated>>
       ELSE /\ isSearching' = TRUE
            /\ timersCreated' = timersCreated + 1
            /\ debounceRef' = timersCreated + 1
            /\ timers' = ClearTimeout(timers, debounceRef) \cup
                    {[id |-> timersCreated + 1, value |-> value, left |-> DEBOUNCE_MS]}
            /\ lastOp' = Called("handleInputChange", "debounced")
            /\ UNCHANGED suggestions
    /\ lastInput' = [fn |-> "handleInputChange", value |-> value]
    /\ sinceInput' = 0
    /\ ret' = Undefined
    /\ UNCHANGED <<mapPosition, mapPositionRef, searches, merged>>

handleQuickSearch(searchTerm) ==
    /\ query' = searchTerm
    /\ queryRef' = searchTerm
    /\ suggestions' = <<>>
    /\ timers' = ClearTimeout(timers, debounceRef)
    /\ executeSearch(searchTerm, TRUE)
    /\ lastInput' = [fn |-> "handleQuickSearch", value |-> searchTerm]
    /\ sinceInput' = 0
    /\ lastOp' = Called("handleQuickSearch", "none")
    /\ ret' = Undefined
    /\ UNCHANGED <<mapPosition, mapPositionRef, debounceRef, timersCreated, merged>>

\* the callback given to window.setTimeout runs
timerFires(id) ==
    /\ \E t \in timers :
        /\ t.id = id
        /\ t.left = 0
        /\ timers' = timers \ {t}
        /\ executeSearch(t.value, isSearching)
    /\ lastOp' = Called("debounceTimer", "fired")
    /\ ret' = Undefined
    /\ UNCHANGED <<query, queryRef, suggestions, mapPosition, mapPositionRef, debounceRef,
                   timersCreated, merged, lastInput, sinceInput>>

\* ms milliseconds go by; a timer that is due may still fire late
timePasses(ms) ==
    /\ timers' = {[t EXCEPT !.left = IF t.left > ms THEN t.left - ms ELSE 0] : t \in timers}
    /\ sinceInput' = IF sinceInput + ms < DEBOUNCE_MS THEN sinceInput + ms ELSE DEBOUNCE_MS
    /\ UNCHANGED <<query, queryRef, suggestions, isSearching, mapPosition, mapPositionRef,
                   debounceRef, timersCreated, searches, merged, lastInput, lastOp, ret>>

----------------------------------------------------------------------------
(* SearchPage : the initial-location effect (lines 81-137)                  *)
(* The effect runs at mount: it starts the 3-second timer and calls         *)
(* getCurrentPosition, which waits for checkPermissions, then (unless       *)
(* already granted) requestPermissions, then Geolocation.getCurrentPosition.*)
(* `geolocation` names the call being awaited, or "done".                   *)

LOCATION_TIMEOUT_MS == 3000

PendingTimeout(left) == [state |-> "pending", left |-> left]

\* clearTimeout(timeoutId): a timer that has fired or was cleared stays as it is
ClearedTimeout(timeout) ==
    IF timeout.state = "pending" THEN [timeout EXCEPT !.state = "cleared"] ELSE timeout

\* the test without positionSet
MaySetPositionWhileMounted == isMounted

\* isMounted && !positionSet
MaySetPosition == isMounted /\ ~positionSet

\* positionSet = true; setMapPosition(position); setIsLoadingInitialLocation(false);
\* the effect of line 144 then copies mapPosition to mapPositionRef
SetInitialPosition(position) ==
    /\ positionSet' = TRUE
    /\ mapPosition' = position
    /\ mapPositionRef' = position
    /\ isLoadingInitialLocation' = FALSE
    /\ positionAssignments' = positionAssignments + 1

\* the 3-second timer fires and does nothing
locationTimeoutFiresIdle ==
    /\ locationTimeout = PendingTimeout(0)
    /\ locationTimeout' = [locationTimeout EXCEPT !.state = "fired"]
    /\ lastOp' = Called("locationTimeout", "fired")
    /\ UNCHANGED <<positionSet, mapPosition, mapPositionRef, isLoadingInitialLocation,
                   positionAssignments, isMounted, geolocation>>

\* the 3-second timer fires (lines 87-93)
locationTimeoutFires ==
    /\ locationTimeout = PendingTimeout(0)
    /\ locationTimeout' = [locationTimeout EXCEPT !.state = "fired"]
    /\ IF MaySetPosition
       THEN SetInitialPosition(DEFAULT_POSITION)
       ELSE UNCHANGED <<positionSet, mapPosition, mapPositionRef, isLoadingInitialLocation,
                        positionAssignments>>
    /\ lastOp' = Called("locationTimeout", "fired")
    /\ UNCHANGED <<isMounted, geolocation>>

\* the catch block of getCurrentPosition (lines 120-128)
catchGeolocationError ==
    /\ geolocation' = "done"
    /\ IF MaySetPosition
       THEN SetInitialPosition(DEFAULT_POSITION) /\ locationTimeout' = ClearedTimeout(locationTimeout)
       ELSE UNCHANGED <<positionSet, mapPosition, mapPositionRef, isLoadingInitialLocation,
                        positionAssignments, locationTimeout>>
    /\ UNCHANGED isMounted

\* Geolocation.checkPermissions() resolves with permission.location
checkPermissionsReturns(location) ==
    /\ geolocation = "checkPermissions"
    /\ geolocation' = IF location = "granted" THEN "getCurrentPosition" ELSE "requestPermissions"
    /\ lastOp' = Called("checkPermissions", location)
    /\ UNCHANGED <<positionSet, mapPosition, mapPositionRef, isLoadingInitialLocation,
                   positionAssignments, locationTimeout, isMounted>>

\* Geolocation.requestPermissions() resolves with request.location
requestPermissionsReturns(location) ==
    /\ geolocation = "requestPermissions"
    /\ IF location = "granted"
       THEN /\ geolocation' = "getCurrentPosition"
            /\ UNCHANGED <<positionSet, mapPosition, mapPositionRef, isLoadingInitialLocation,
                           positionAssignments, locationTimeout, isMounted>>
       ELSE catchGeolocationError
    /\ lastOp' = Called("requestPermissions", location)

\* Geolocation.getCurrentPosition() resolves with a fix (lines 111-119)
getCurrentPositionReturns(position) ==
    /\ geolocation = "getCurrentPosition"
    /\ geolocation' = "done"
    /\ IF MaySetPosition
       THEN SetInitialPosition(position) /\ locationTimeout' = ClearedTimeout(locationTimeout)
       ELSE UNCHANGED <<positionSet, mapPosition, mapPositionRef, isLoadingInitialLocation,
                        positionAssignments, locationTimeout>>
    /\ lastOp' = Called("getCurrentPosition", "resolved")
    /\ UNCHANGED isMounted

\* the call being awaited rejects
geolocationRejects ==
    /\ geolocation # "done"
    /\ catchGeolocationError
    /\ lastOp' = Called(geolocation, "rejected")

\* the cleanup of the effect, at unmount (lines 133-136)
unmountSearchPage ==
    /\ isMounted
    /\ isMounted' = FALSE
    /\ locationTimeout' = ClearedTimeout(locationTimeout)
    /\ lastOp' = Called("SearchPage", "unmount")
    /\ UNCHANGED <<positionSet, mapPosition, mapPositionRef, isLoadingInitialLocation,
                   positionAssignments, geolocation>>

\* ms milliseconds go by for the 3-second timer; once due it may still fire late
locationTimePasses(ms) ==
    /\ locationTimeout.state = "pending"
    /\ locationTimeout' =
        PendingTimeout(IF locationTimeout.left > ms THEN locationTimeout.left - ms ELSE 0)
    /\ UNCHANGED <<positionSet, mapPosition, mapPositionRef, isLoadingInitialLocation,
                   positionAssignments, isMounted, geolocation, lastOp>>

\* the initial-location effect sets the map position, once: one of its
\* outcomes arrives first, in a single step
locationResolved(position) ==
    /\ MaySetPosition
    /\ SetInitialPosition(position)
    /\ locationTimeout' = ClearedTimeout(locationTimeout)
    /\ geolocation' = "done"
    /\ UNCHANGED isMounted
    /\ UNCHANGED <<query, queryRef, suggestions, isSearching, debounceRef, timers,
                   timersCreated, searches, merged, lastInput, sinceInput, lastOp, ret>>

----------------------------------------------------------------------------
(* InteractiveMap : the smoothed current location (lines 57-133)            *)
(* A coordinate is a whole number of units of 1e-9 degree.  A double holds  *)
(* these values far more finely than one unit; the model rounds a lerp step *)
(* toward zero to a whole unit.                                             *)

NoFrame == 0            \* animationFrameRef.current === null
FACTOR_PERCENT == 15    \* const factor = 0.15
SNAP_UNITS == 100       \* 0.0000001 degree

Location(lat, lng) == [lat |-> lat, lng |-> lng]

\* current + (target - current) * factor, for one coordinate
LerpCoordinate(current, target) ==
    IF target >= current
    THEN current + ((target - current) * FACTOR_PERCENT) \div 100
    ELSE current - ((current - target) * FACTOR_PERCENT) \div 100

LerpLocation(current, target) ==
    Location(LerpCoordinate(current.lat, target.lat), LerpCoordinate(current.lng, target.lng))

\* Math.abs(target.lat - newLat) + Math.abs(target.lng - newLng)
ManhattanDistance(a, b) == Abs(a.lat - b.lat) + Abs(a.lng - b.lng)

\* a snap only when the new position is the target itself
CloseEnoughWhenEqual(target, new) == new = target

\* dist < 0.0000001
CloseEnough(target, new) == ManhattanDistance(target, new) < SNAP_UNITS

\* requestAnimationFrame returns an id that no pending frame has and that differs
\* from every id handed out before; the only earlier id the component still holds
\* is animationFrameRef.current, so the least id apart from those stands for it.
NewFrameId(pending, held) ==
    CHOOSE n \in 1..(Cardinality(pending) + 2) : n \notin pending \cup {held}

\* cancelAnimationFrame(animationFrameRef.current), when the ref is set
CancelFrame(pending, id) == IF id # NoFrame THEN pending \ {id} ELSE pending

\* watchPosition's success callback, the render it causes and the smoothing effect
watchPositionFix(position) ==
    /\ currentLocation' = position
    /\ targetLocationRef' = position
    /\ fixCount' = fixCount + 1
    /\ IF smoothLocation = Null
       THEN /\ smoothLocation' = position
            /\ UNCHANGED <<animationFrameRef, frames>>
       ELSE \E id \in {NewFrameId(CancelFrame(frames, animationFrameRef), animationFrameRef)} :
            /\ animationFrameRef' = id
            /\ frames' = CancelFrame(frames, animationFrameRef) \cup {id}
            /\ UNCHANGED smoothLocation

\* the browser runs the animation frame `id`: animate() and its state updater
animate(id) ==
    /\ id \in frames
    /\ IF targetLocationRef = Null
       THEN /\ frames' = frames \ {id}
            /\ UNCHANGED <<smoothLocation, animationFrameRef>>
       ELSE IF smoothLocation = Null
       THEN /\ smoothLocation' = targetLocationRef
            /\ frames' = frames \ {id}
            /\ UNCHANGED animationFrameRef
       ELSE \E new \in {LerpLocation(smoothLocation, targetLocationRef)} :
            IF CloseEnough(targetLocationRef, new)
            THEN /\ smoothLocation' = targetLocationRef
                 /\ frames' = frames \ {id}
                 /\ UNCHANGED animationFrameRef
            ELSE \E next \in {NewFrameId(frames \ {id}, animationFrameRef)} :
                 /\ animationFrameRef' = next
                 /\ frames' = (frames \ {id}) \cup {next}
                 /\ smoothLocation' = new
    /\ UNCHANGED <<currentLocation, targetLocationRef, fixCount>>

----------------------------------------------------------------------------
(* InteractiveMap : the device heading (lines 135-197)                      *)
(* Angles are whole degrees.  A number read from an event or held in the    *)
(* heading state is Number(n); null and undefined are Null and Undefined.   *)

Number(n) == [kind |-> "number", value |-> n]

\* JavaScript's % : the remainder takes the sign of the dividend
JsRemainder(a, b) == IF a >= 0 THEN a % b ELSE 0 - ((0 - a) % b)

\* the heading effect runs at mount; hasRequestPermission: the platform has
\* DeviceOrientationEvent.requestPermission (iOS 13+)
headingEffect(hasRequestPermission) ==
    /\ ~headingEffectRan
    /\ headingEffectRan' = TRUE
    /\ permissionApi' = hasRequestPermission
    /\ absoluteSupported' = FALSE
    /\ orientationListeners' =
        IF hasRequestPermission
        THEN orientationListeners
        ELSE orientationListeners \cup {"handleAbsoluteOrientation", "handleOrientation"}
    /\ UNCHANGED <<heading, hasOrientationSensor, absoluteReceived>>

\* handleOrientation without its first line
handleOrientationUnguarded(compassHeading) ==
    /\ IF compassHeading # Undefined /\ compassHeading # Null
       THEN heading' = compassHeading /\ hasOrientationSensor' = TRUE
       ELSE UNCHANGED <<heading, hasOrientationSensor>>

handleOrientation(compassHeading) ==
    /\ IF absoluteSupported
       THEN UNCHANGED <<heading, hasOrientationSensor>>
       ELSE IF compassHeading # Undefined /\ compassHeading # Null
       THEN heading' = compassHeading /\ hasOrientationSensor' = TRUE
       ELSE UNCHANGED <<heading, hasOrientationSensor>>

\* the listener requestOrientationPermission adds once permission is granted
grantedOrientationListener(compassHeading) ==
    /\ IF compassHeading # Undefined /\ compassHeading # Null
       THEN heading' = compassHeading /\ hasOrientationSensor' = TRUE
       ELSE UNCHANGED <<heading, hasOrientationSensor>>

handleAbsoluteOrientation(alpha) ==
    /\ absoluteSupported' = TRUE
    /\ IF alpha # Null
       THEN /\ heading' = Number(JsRemainder(360 - alpha.value, 360))
            /\ hasOrientationSensor' = TRUE
       ELSE UNCHANGED <<heading, hasOrientationSensor>>

\* the window dispatches a deviceorientationabsolute event
deviceorientationabsolute(alpha) ==
    /\ headingEffectRan
    /\ IF "handleAbsoluteOrientation" \in orientationListeners
       THEN handleAbsoluteOrientation(alpha) /\ absoluteReceived' = TRUE
       ELSE UNCHANGED <<heading, hasOrientationSensor, absoluteSupported, absoluteReceived>>
    /\ lastOp' = Called("deviceorientationabsolute", alpha)
    /\ UNCHANGED <<permissionApi, orientationListeners, headingEffectRan, ret>>

\* the window dispatches a (relative) deviceorientation event; the listener
\* added on grant sets or leaves the heading whatever ran before it
deviceorientation(compassHeading) ==
    /\ headingEffectRan
    /\ IF "grantedOrientationListener" \in orientationListeners
       THEN grantedOrientationListener(compassHeading)
       ELSE IF "handleOrientation" \in orientationListeners
       THEN handleOrientation(compassHeading)
       ELSE UNCHANGED <<heading, hasOrientationSensor>>
    /\ lastOp' = Called("deviceorientation", compassHeading)
    /\ UNCHANGED <<absoluteSupported, absoluteReceived, permissionApi, orientationListeners,
                   headingEffectRan, ret>>

\* requestOrientationPermission, with what requestPermission() resolves to
\* ("granted", "denied", or "error" when it rejects)
requestOrientationPermission(permission) ==
    /\ orientationListeners' =
        IF permissionApi /\ permission = "granted"
        THEN orientationListeners \cup {"grantedOrientationListener"}
        ELSE orientationListeners
    /\ UNCHANGED <<heading, hasOrientationSensor, absoluteSupported, absoluteReceived,
                   permissionApi, headingEffectRan>>

----------------------------------------------------------------------------
(* InteractiveMap : the long press (lines 439-531)                          *)
(* The browser sends every event of a touch point to the element the touch  *)
(* began on; e.touches lists all touch points on the screen.  A pending     *)
(* timer carries the press it was started for: the touch, where it began,   *)
(* its age, and whether an event that cancels a press has happened since.   *)

LONG_PRESS_MS == 600
MOVE_THRESHOLD == 15

Point(x, y) == [x |-> x, y |-> y]
Touch(id, onMap, x, y) == [id |-> id, onMap |-> onMap, x |-> x, y |-> y]

\* the test of handleTouchMove on one axis only
DisplacedOnX(touch, start) == Abs(touch.x - start.x) > MOVE_THRESHOLD

\* Math.abs(clientX - pressStartPos.x) > moveThreshold || the same for y
Displaced(touch, start) ==
    Abs(touch.x - start.x) > MOVE_THRESHOLD \/ Abs(touch.y - start.y) > MOVE_THRESHOLD

TouchIds(ts) == {ts[i].id : i \in 1..Len(ts)}
TimerIds(ts) == {t.id : t \in ts}

\* window.setTimeout returns an id no pending timer has and that differs from
\* every earlier id; the only earlier id still held is longPressTimerRef.current
NewTimerId(pending, held) ==
    CHOOSE n \in 1..(Cardinality(pending) + 2) : n \notin TimerIds(pending) \cup {held}

\* a finger comes down; handleTouchStart runs when it came down on the map
touchStart(onMap, x, y) ==
    \E id \in {CHOOSE n \in 1..(Len(touches) + 1) : n \notin TouchIds(touches)} :
        /\ touches' = Append(touches, Touch(id, onMap, x, y))
        /\ IF onMap /\ Len(touches') = 1
           THEN \E timer \in {NewTimerId(pressTimers, longPressTimerRef)} :
                /\ isPressing' = TRUE
                /\ pressStartPos' = Point(x, y)
                /\ longPressTimerRef' = timer
                /\ pressTimers' = pressTimers \cup
                        {[id |-> timer, left |-> LONG_PRESS_MS, touch |-> id,
                          start |-> Point(x, y), age |-> 0, cancelled |-> FALSE]}
           ELSE UNCHANGED <<isPressing, pressStartPos, longPressTimerRef, pressTimers>>
        /\ UNCHANGED <<marker, isLoadingLocation, lastOp, ret>>

\* the press of timer t has seen its finger `moved` more than MOVE_THRESHOLD px
\* away, on some axis, from where it came down
MarkDisplaced(t, moved) ==
    IF /\ t.touch = moved.id
       /\ \E d \in {moved.x - t.start.x, t.start.x - moved.x,
                     moved.y - t.start.y, t.start.y - moved.y} : d > MOVE_THRESHOLD
    THEN [t EXCEPT !.cancelled = TRUE]
    ELSE t

\* finger i moves to (x, y); handleTouchMove runs when it began on the map
touchMove(i, x, y) ==
    /\ i \in 1..Len(touches)
    /\ Point(x, y) # Point(touches[i].x, touches[i].y)
    /\ touches' = [touches EXCEPT ![i] = Touch(touches[i].id, touches[i].onMap, x, y)]
    /\ IF touches[i].onMap /\ isPressing /\ Displaced(touches'[1], pressStartPos)
       THEN /\ isPressing' = FALSE
            /\ longPressTimerRef' = NoTimer
            /\ pressTimers' = {MarkDisplaced(t, touches'[i]) :
                                t \in {u \in pressTimers : u.id # longPressTimerRef}}
       ELSE /\ pressTimers' = {MarkDisplaced(t, touches'[i]) : t \in pressTimers}
            /\ UNCHANGED <<isPressing, longPressTimerRef>>
    /\ UNCHANGED <<pressStartPos, marker, isLoadingLocation, lastOp, ret>>

\* finger i is lifted (touchend) or taken away (touchcancel); handleTouchEnd
\* runs when it began on the map and ends by asking for the orientation permission
touchEnd(i, permission) ==
    /\ i \in 1..Len(touches)
    /\ touches' = RemoveAt(touches, i)
    /\ IF touches[i].onMap
       THEN /\ isPressing' = FALSE
            /\ longPressTimerRef' = NoTimer
            /\ pressTimers' = {[t EXCEPT !.cancelled = TRUE] :
                                t \in {u \in pressTimers : u.id # longPressTimerRef}}
            /\ requestOrientationPermission(permission)
       ELSE UNCHANGED <<isPressing, longPressTimerRef, pressTimers, headingVars>>
    /\ UNCHANGED <<pressStartPos, marker, isLoadingLocation, lastOp, ret>>

\* the long-press timer `id` fires; hasBounds: map.getBounds() gave its corners
longPressTimerFires(id, hasBounds) ==
    /\ \E t \in pressTimers :
        /\ t.id = id
        /\ t.left = 0
        /\ pressTimers' = pressTimers \ {t}
        /\ IF ~isPressing
           THEN /\ lastOp' = Called("longPressTimer", "notPressing")
                /\ UNCHANGED <<marker, isLoadingLocation>>
           ELSE IF ~hasBounds
           THEN /\ lastOp' = Called("longPressTimer", "noBounds")
                /\ UNCHANGED <<marker, isLoadingLocation>>
           ELSE /\ lastOp' = Called("longPressTimer", "handleLongPressAt")
                /\ marker' = t.start
                /\ isLoadingLocation' = TRUE
    /\ ret' = Undefined
    /\ UNCHANGED <<touches, isPressing, pressStartPos, longPressTimerRef>>

\* reverseGeocode settles and handleLongPressAt ends
reverseGeocodeReturns ==
    /\ isLoadingLocation
    /\ isLoadingLocation' = FALSE
    /\ UNCHANGED <<touches, isPressing, pressStartPos, longPressTimerRef, pressTimers, marker,
                   lastOp, ret>>

\* ms milliseconds go by for the long-press timers
pressTimePasses(ms) ==
    /\ pressTimers' =
        {[t EXCEPT !.left = IF t.left > ms THEN t.left - ms ELSE 0,
                   !.age = IF t.age + ms < LONG_PRESS_MS THEN t.age + ms ELSE LONG_PRESS_MS] :
            t \in pressTimers}
    /\ UNCHANGED <<touches, isPressing, pressStartPos, longPressTimerRef, marker,
                   isLoadingLocation, lastOp, ret>>

----------------------------------------------------------------------------
(* The calls the environment makes *)

PlaceInput(name, tabId) ==
    [name |-> name, memo |-> <<>>, address |-> "addr", latitude |-> 35, longitude |-> 139,
     tabId |-> tabId]

CustomIdsShown == {t.id : t \in {u \in Range(TabsShown) : u.isCustom}}
\* ids passed to updateTab / deleteTab: default tabs, an unknown id, custom tabs.
\* A call with another default id takes the same step as one with these.
SomeDefaultIds == {"all", "frequent"}
RenameIds == SomeDefaultIds \cup {"nosuch", TabUuid(1), TabUuid(2)}
DeleteIds == SomeDefaultIds \cup {"nosuch"} \cup CustomIdsShown
NewTabNames == {"x"}
RenameNames == {"y"}
PlaceTabIds == {"work", TabUuid(1)}

\* a uuid is left in the model's supply, or the call draws none
TabAddAllowed(bound) ==
    tabUuids < bound \/ Len(CustomTabsOf(TabsShown)) >= MAX_CUSTOM_TABS

InitState(key, call) ==
    /\ searchHistory = <<>>
    /\ lastAdded = <<>>
    /\ historyCalls = [new |-> 0, again |-> 0, clears |-> 0]
    /\ storedTabs = <<>>
    /\ defaultTabsMem = DEFAULT_TABS
    /\ places = <<>>
    /\ tabUuids = 0
    /\ placeUuids = 0
    /\ clock = 0
    /\ lastOp = Called("init", "none")
    /\ ret = Undefined
    /\ pageId = "new"
    /\ form = EmptyForm
    /\ formErrors = {}
    /\ route = "home"
    /\ nearbyCall = call
    /\ apiKey = key
    /\ query = <<>>
    /\ queryRef = <<>>
    /\ suggestions = <<>>
    /\ isSearching = FALSE
    /\ mapPosition = Null
    /\ mapPositionRef = Null
    /\ debounceRef = NoTimer
    /\ timers = {}
    /\ timersCreated = 0
    /\ searches = <<>>
    /\ merged = [q |-> <<>>, nearbyResults |-> <<>>, autocompleteResults |-> <<>>]
    /\ lastInput = [fn |-> "none", value |-> <<>>]
    /\ sinceInput = 0
    /\ isLoadingInitialLocation = TRUE
    /\ isMounted = TRUE
    /\ positionSet = FALSE
    /\ locationTimeout = PendingTimeout(LOCATION_TIMEOUT_MS)
    /\ geolocation = "checkPermissions"
    /\ positionAssignments = 0
    /\ currentLocation = Null
    /\ smoothLocation = Null
    /\ targetLocationRef = Null
    /\ animationFrameRef = NoFrame
    /\ frames = {}
    /\ fixCount = 0
    /\ touches = <<>>
    /\ isPressing = FALSE
    /\ pressStartPos = Point(0, 0)
    /\ longPressTimerRef = NoTimer
    /\ pressTimers = {}
    /\ marker = Null
    /\ isLoadingLocation = FALSE
    /\ heading = Null
    /\ hasOrientationSensor = FALSE
    /\ absoluteSupported = FALSE
    /\ permissionApi = FALSE
    /\ orientationListeners = {}
    /\ headingEffectRan = FALSE
    /\ absoluteReceived = FALSE

NearbyCall(location, response) == [location |-> location, response |-> response]

\* a build with an API key, nothing called yet
Init == InitState("key", NearbyCall(DEFAULT_POSITION, ApiResponse("failed", <<>>)))

CallGetTabs == getTabs /\ UNCHANGED <<historyVars, formVars, searchVars, mapVars>>
CallAddCustomTab(bound) ==
    \E name \in NewTabNames :
        TabAddAllowed(bound) /\ addCustomTab(name) /\ UNCHANGED <<historyVars, formVars, searchVars, mapVars>>
CallUpdateTab == \E id \in RenameIds, name \in RenameNames : updateTab(id, name) /\ UNCHANGED <<historyVars, formVars, searchVars, mapVars>>
CallDeleteTab == \E id \in DeleteIds : deleteTab(id) /\ UNCHANGED <<historyVars, formVars, searchVars, mapVars>>
CallReload == Reload /\ UNCHANGED <<historyVars, formVars, searchVars, mapVars>>
CallSavePlaceInTab ==
    \E t \in PlaceTabIds :
        placeUuids < MaxTabPlaces /\ savePlace(PlaceInput(<<"a">>, t)) /\ UNCHANGED <<historyVars, formVars, searchVars, mapVars>>

\* storage.ts, the tab functions alone
TabsNext ==
    \/ CallGetTabs
    \/ CallAddCustomTab(MaxTabAdds)
    \/ CallUpdateTab
    \/ CallDeleteTab
    \/ CallReload

SpecTabs == Init /\ [][TabsNext]_vars

\* storage.ts, the tab functions with places stored
TabPlacesNext ==
    \/ CallGetTabs
    \/ CallAddCustomTab(MaxPlaceTabAdds)
    \/ CallUpdateTab
    \/ CallDeleteTab
    \/ CallReload
    \/ CallSavePlaceInTab

SpecTabPlaces == Init /\ [][TabPlacesNext]_vars

\* storage.ts, the place functions
PlaceNames == {<<"a">>, <<"b">>}
PlaceInputs == {PlaceInput(n, t) : n \in PlaceNames, t \in {"frequent", "work"}}
PlaceCallIds == {"nosuch"} \cup {PlaceUuid(n) : n \in 1..placeUuids}
UpdateInputs ==
    { [fields |-> {"name"}, vals |-> PlaceInput(<<"b">>, "work")],
      [fields |-> {"tabId", "memo"}, vals |-> PlaceInput(<<"b">>, "work")],
      [fields |-> {"updatedAt"}, vals |-> [updatedAt |-> 0 - 1]] }

CallSavePlace ==
    \E p \in PlaceInputs : placeUuids < MaxPlaceAdds /\ savePlace(p) /\ UNCHANGED <<historyVars, formVars, searchVars, mapVars>>
CallUpdatePlace ==
    \E id \in PlaceCallIds, u \in UpdateInputs : updatePlace(id, u) /\ UNCHANGED <<historyVars, formVars, searchVars, mapVars>>
CallDeletePlace == \E id \in PlaceCallIds : deletePlace(id) /\ UNCHANGED <<historyVars, formVars, searchVars, mapVars>>
Tick == ClockTick /\ UNCHANGED <<historyVars, formVars, searchVars, mapVars>>

PlacesNext ==
    \/ CallSavePlace
    \/ CallUpdatePlace
    \/ CallDeletePlace
    \/ Tick

SpecPlaces == Init /\ [][PlacesNext]_vars

\* the search history: new queries are added, stored ones are added again
\* (the first, the second or the oldest entry), the history is cleared
AgainPositions(history) == {i \in {1, 2, Len(history)} : i \in 1..Len(history)}

CallAddNewQuery ==
    /\ historyCalls.new < MaxQueries
    /\ addSearchHistory(historyCalls.new + 1, <<>>)
    /\ historyCalls' = [historyCalls EXCEPT !.new = @ + 1]
    /\ UNCHANGED <<storedTabs, defaultTabsMem, places, tabUuids, placeUuids, clock,
                   formVars, searchVars, mapVars>>
CallAddStoredQuery ==
    \E i \in AgainPositions(searchHistory) :
        /\ historyCalls.again + historyCalls.clears < MaxOtherCalls
        /\ addSearchHistory(searchHistory[i].query, <<"place">>)
        /\ historyCalls' = [historyCalls EXCEPT !.again = @ + 1]
        /\ UNCHANGED <<storedTabs, defaultTabsMem, places, tabUuids, placeUuids, clock,
                       formVars, searchVars, mapVars>>
CallClearSearchHistory ==
    /\ historyCalls.again + historyCalls.clears < MaxOtherCalls
    /\ clearSearchHistory
    /\ historyCalls' = [historyCalls EXCEPT !.clears = @ + 1]
    /\ UNCHANGED <<storedTabs, defaultTabsMem, places, tabUuids, placeUuids, clock,
                   formVars, searchVars, mapVars>>

HistoryNext ==
    \/ CallAddNewQuery
    \/ CallAddStoredQuery
    \/ CallClearSearchHistory

SpecHistory == Init /\ [][HistoryNext]_vars

\* PlacePage over the storage module
NameChars == {" ", "a"}
NameValues == UNION {[1..n -> NameChars] : n \in 0..MaxNameLen}

CallOpenPlacePage ==
    \E id \in {"new"} \cup PlaceCallIds : OpenPlacePage(id) /\ UNCHANGED <<historyVars, searchVars, mapVars>>
CallSetName == \E v \in NameValues : SetName(v) /\ UNCHANGED <<historyVars, searchVars, mapVars>>
CallHandleSave ==
    /\ (pageId = "new" /\ Validate(form) = {}) => placeUuids < MaxFormSaves
    /\ handleSave
    /\ UNCHANGED <<historyVars, searchVars, mapVars>>

FormNext ==
    \/ CallOpenPlacePage
    \/ CallSetName
    \/ CallHandleSave
    \/ Tick

SpecForm == Init /\ [][FormNext]_vars

\* maps.ts, searchNearbyPlaces on its own: the call's inputs are drawn at the start
Origins == {DEFAULT_POSITION, [lat |-> 35, lng |-> 140]}
ApiPlaceIds == {<<>>, <<"A">>, <<"places/", "A">>, <<"B">>}
ApiLocations == {Null, LatLng(35, 140), LatLng(36, 140), LatLng(37, 140)}
ApiPlaces == {ApiPlace(id, "name", loc) : id \in ApiPlaceIds, loc \in ApiLocations}
ApiPlaceLists == UNION {[1..n -> ApiPlaces] : n \in 0..MaxApiPlaces}
FailureKinds == {"nofetch", "failed", "httpError", "noList"}
NearbyResponses ==
    {ApiResponse(k, <<>>) : k \in FailureKinds} \cup {ApiResponse("ok", l) : l \in ApiPlaceLists}

InitNearby ==
    \E location \in Origins, response \in NearbyResponses :
        InitState("key", NearbyCall(location, response))

CallSearchNearbyPlaces ==
    /\ lastOp.name = "init"
    /\ searchNearbyPlacesCall
    /\ UNCHANGED <<historyVars, formVars, apiKey, searchPageVars, mapVars>>

NearbyNext == CallSearchNearbyPlaces

SpecNearby == InitNearby /\ [][NearbyNext]_vars

\* SearchPage: what the user types and taps, and what the network answers
TypedValues == {<<>>, <<" ">>, <<"a">>, <<"b">>}
QuickTerms == {<<"t", "o", "i", "r", "e">>, <<"k", "o", "n", "b", "i", "n", "i">>}
PlainResponses == {ApiResponse("failed", <<>>)}

\* an executeSearch invocation may be suspended, or the call suspends none
SearchAllowed(bound) == Len(searches) < bound \/ apiKey = ""

CallHandleInputChange(values, bound) ==
    \E value \in values :
        /\ Trim(value) # <<>> => timersCreated < bound
        /\ handleInputChange(value)
        /\ UNCHANGED <<dataVars, formVars, nearbyCall, apiKey, locationVars, mapVars>>
CallHandleQuickSearch(bound) ==
    \E searchTerm \in QuickTerms :
        /\ SearchAllowed(bound)
        /\ handleQuickSearch(searchTerm)
        /\ UNCHANGED <<dataVars, formVars, nearbyCall, apiKey, locationVars, mapVars>>
CallTimerFires(bound) ==
    \E t \in timers :
        /\ SearchAllowed(bound)
        /\ timerFires(t.id)
        /\ UNCHANGED <<dataVars, formVars, nearbyCall, apiKey, locationVars, mapVars>>
CallTimePasses == timePasses(TickMs) /\ UNCHANGED <<dataVars, formVars, nearbyCall, apiKey, locationVars, mapVars>>
CallLocationResolved ==
    \E position \in {DEFAULT_POSITION} :
        locationResolved(position) /\ UNCHANGED <<dataVars, formVars, nearbyCall, apiKey, mapVars>>
CallAutocompleteReturns(responses) ==
    \E i \in 1..Len(searches), response \in responses :
        autocompleteReturns(i, response) /\ UNCHANGED <<dataVars, formVars, nearbyCall, apiKey, locationVars, mapVars>>
CallNearbyReturns(responses) ==
    \E i \in 1..Len(searches), response \in responses :
        nearbyReturns(i, response) /\ UNCHANGED <<dataVars, formVars, nearbyCall, apiKey, locationVars, mapVars>>

\* SearchPage, the debounce: every input, a network that answers nothing
DebounceNext ==
    \/ CallHandleInputChange(TypedValues, MaxTimers)
    \/ CallHandleQuickSearch(MaxInFlight)
    \/ CallTimerFires(MaxInFlight)
    \/ CallTimePasses
    \/ CallLocationResolved
    \/ CallAutocompleteReturns(PlainResponses)
    \/ CallNearbyReturns(PlainResponses)

SpecDebounce == Init /\ [][DebounceNext]_vars

\* SearchPage, the merge: a network that answers with places.
\* From DEFAULT_POSITION, place B is at 0 m and place A one degree north.
PlaceNear == ApiPlace(<<"B">>, "nameB", LatLng(36, 140))
PlaceFar == ApiPlace(<<"A">>, "nameA", LatLng(37, 140))
PlaceFarAgain == ApiPlace(<<"places/", "A">>, "nameA2", LatLng(36, 140))
MergeNearbyResponses ==
    { ApiResponse("failed", <<>>),
      ApiResponse("ok", <<PlaceFar, PlaceNear>>),
      ApiResponse("ok", <<PlaceFar, PlaceFarAgain>>) }
MergeAutocompleteResponses ==
    { ApiResponse("httpError", <<>>),
      ApiResponse("ok", <<PlacePrediction(<<"A">>, "mainA", "textA", NoDistance),
                          PlacePrediction(<<"C">>, "mainC", "textC", 500)>>),
      ApiResponse("ok", <<QueryPrediction,
                          PlacePrediction(<<"C">>, "", "textC", NoDistance),
                          PlacePrediction(<<"C">>, "mainC", "textC", 500)>>) }

MergeTypedValues == {<<>>, <<"a">>}

InitAnyBuild ==
    \E key \in {"", "key"} :
        InitState(key, NearbyCall(DEFAULT_POSITION, ApiResponse("failed", <<>>)))

MergeNext ==
    \/ CallHandleInputChange(MergeTypedValues, MaxMergeTimers)
    \/ CallTimePasses
    \/ CallTimerFires(MaxMergeInFlight)
    \/ CallHandleQuickSearch(MaxMergeInFlight)
    \/ CallLocationResolved
    \/ CallAutocompleteReturns(MergeAutocompleteResponses)
    \/ CallNearbyReturns(MergeNearbyResponses)

SpecMerge == InitAnyBuild /\ [][MergeNext]_vars

\* SearchPage, the initial location: the permission and position calls settle,
\* time passes, the 3-second timer fires, the page is left
PermissionStates == {"granted", "denied", "prompt"}
GeolocationFixes == {[lat |-> 35, lng |-> 139], [lat |-> 34, lng |-> 135]}

CallCheckPermissionsReturns ==
    \E location \in PermissionStates :
        /\ checkPermissionsReturns(location)
        /\ UNCHANGED <<dataVars, ret, formVars, nearbyCall, apiKey, searchInputVars, mapVars>>
CallRequestPermissionsReturns ==
    \E location \in PermissionStates :
        /\ requestPermissionsReturns(location)
        /\ UNCHANGED <<dataVars, ret, formVars, nearbyCall, apiKey, searchInputVars, mapVars>>
CallGetCurrentPositionReturns ==
    \E position \in GeolocationFixes :
        /\ getCurrentPositionReturns(position)
        /\ UNCHANGED <<dataVars, ret, formVars, nearbyCall, apiKey, searchInputVars, mapVars>>
CallGeolocationRejects ==
    /\ geolocationRejects
    /\ UNCHANGED <<dataVars, ret, formVars, nearbyCall, apiKey, searchInputVars, mapVars>>
CallLocationTimeoutFires ==
    /\ locationTimeoutFires
    /\ UNCHANGED <<dataVars, ret, formVars, nearbyCall, apiKey, searchInputVars, mapVars>>
CallLocationTimePasses ==
    /\ locationTimePasses(TickMs)
    /\ UNCHANGED <<dataVars, ret, formVars, nearbyCall, apiKey, searchInputVars, mapVars>>
CallUnmountSearchPage ==
    /\ unmountSearchPage
    /\ UNCHANGED <<dataVars, ret, formVars, nearbyCall, apiKey, searchInputVars, mapVars>>

LocationNext ==
    \/ CallCheckPermissionsReturns
    \/ CallRequestPermissionsReturns
    \/ CallGetCurrentPositionReturns
    \/ CallGeolocationRejects
    \/ CallLocationTimeoutFires
    \/ CallLocationTimePasses
    \/ CallUnmountSearchPage

SpecLocation == Init /\ [][LocationNext]_vars

\* the clock runs and the browser runs a timer that is due
SpecLocationFair ==
    SpecLocation /\ WF_vars(CallLocationTimePasses) /\ WF_vars(CallLocationTimeoutFires)

\* InteractiveMap, the smoothed location: positions arrive, animation frames run
Fixes == {Location(0, 0), Location(400, 0 - 300), Location(0, 60)}

CallWatchPositionFix ==
    \E position \in Fixes :
        /\ fixCount < MaxFixes
        /\ watchPositionFix(position)
        /\ UNCHANGED <<dataVars, lastOp, ret, formVars, searchVars, pressVars, headingVars>>
CallAnimate ==
    \E id \in frames : animate(id) /\ UNCHANGED <<dataVars, lastOp, ret, formVars, searchVars, pressVars, headingVars>>

SmoothNext ==
    \/ CallWatchPositionFix
    \/ CallAnimate

SpecSmooth == Init /\ [][SmoothNext]_vars

\* the browser runs every animation frame it was asked for
SpecSmoothFair == SpecSmooth /\ WF_vars(CallAnimate)

\* InteractiveMap, the device heading: the effect runs, orientation events
\* arrive, the first click or a touchend asks for the permission
Alphas ==
    {Null, Number(0), Number(1), Number(90), Number(359), Number(360), Number(450),
     Number(0 - 90)}
CompassHeadings == {Undefined, Null, Number(0), Number(10), Number(200)}
Permissions == {"granted", "denied", "error"}

CallHeadingEffect ==
    \E hasRequestPermission \in BOOLEAN :
        /\ headingEffect(hasRequestPermission)
        /\ UNCHANGED <<dataVars, lastOp, ret, formVars, searchVars, smoothVars, pressVars>>
CallDeviceOrientationAbsolute ==
    \E alpha \in Alphas :
        /\ deviceorientationabsolute(alpha)
        /\ UNCHANGED <<dataVars, formVars, searchVars, smoothVars, pressVars>>
CallDeviceOrientation ==
    \E compassHeading \in CompassHeadings :
        /\ deviceorientation(compassHeading)
        /\ UNCHANGED <<dataVars, formVars, searchVars, smoothVars, pressVars>>
CallRequestOrientationPermission ==
    \E permission \in Permissions :
        /\ headingEffectRan
        /\ requestOrientationPermission(permission)
        /\ UNCHANGED <<dataVars, lastOp, ret, formVars, searchVars, smoothVars, pressVars>>

HeadingNext ==
    \/ CallHeadingEffect
    \/ CallDeviceOrientationAbsolute
    \/ CallDeviceOrientation
    \/ CallRequestOrientationPermission

SpecHeading == Init /\ [][HeadingNext]_vars

\* InteractiveMap, the long press: fingers come down, move and go, time passes
TouchXs == {0, 10, 20}
TouchYs == {0, 20}

CallTouchStart ==
    \E onMap \in BOOLEAN, x \in {0}, y \in TouchYs :
        /\ Len(touches) < MaxTouches
        /\ touchStart(onMap, x, y)
        /\ UNCHANGED <<dataVars, formVars, searchVars, smoothVars, headingVars>>
CallTouchMove ==
    \E i \in 1..Len(touches), x \in TouchXs, y \in TouchYs :
        touchMove(i, x, y) /\ UNCHANGED <<dataVars, formVars, searchVars, smoothVars, headingVars>>
CallTouchEnd ==
    \E i \in 1..Len(touches), permission \in Permissions :
        touchEnd(i, permission) /\ UNCHANGED <<dataVars, formVars, searchVars, smoothVars>>
CallLongPressTimerFires ==
    \E t \in pressTimers, hasBounds \in BOOLEAN :
        longPressTimerFires(t.id, hasBounds)
        /\ UNCHANGED <<dataVars, formVars, searchVars, smoothVars, headingVars>>
CallReverseGeocodeReturns ==
    reverseGeocodeReturns /\ UNCHANGED <<dataVars, formVars, searchVars, smoothVars, headingVars>>
CallPressTimePasses ==
    pressTimePasses(TickMs) /\ UNCHANGED <<dataVars, formVars, searchVars, smoothVars, headingVars>>

PressNext ==
    \/ CallTouchStart
    \/ CallTouchMove
    \/ CallTouchEnd
    \/ CallLongPressTimerFires
    \/ CallReverseGeocodeReturns
    \/ CallPressTimePasses

SpecPress == Init /\ [][PressNext]_vars

----------------------------------------------------------------------------
(* Claims about the search *)

Stored == lastOp = Called("executeSearch", "stored")

NoRepeatedPlaceId(s) == \A i, j \in 1..Len(s) : i # j => s[i].placeId # s[j].placeId

\* the autocomplete results whose placeId no nearby result has, in their order
KeptAutocomplete(nearby, ac) ==
    SelectSeq(ac, LAMBDA r : \A k \in 1..Len(nearby) : nearby[k].placeId # r.placeId)

IsNearbyEntry(e, r) ==
    e = [text |-> r.name, description |-> r.address, placeId |-> r.placeId,
         distanceMeters |-> r.distanceMeters]

IsAutocompleteEntry(e, r) ==
    e = [text |-> r.mainText, description |-> r.secondaryText, placeId |-> r.placeId,
         distanceMeters |-> r.distanceMeters]

IsMergeOf(list, nearby, ac) ==
    /\ Len(list) = Len(nearby) + Len(KeptAutocomplete(nearby, ac))
    /\ \A k \in 1..Len(nearby) : IsNearbyEntry(list[k], nearby[k])
    /\ \A k \in 1..Len(KeptAutocomplete(nearby, ac)) :
          IsAutocompleteEntry(list[Len(nearby) + k], KeptAutocomplete(nearby, ac)[k])

\* C1: an executeSearch(q) that finishes while q is the current query sets the
\* suggestion list to every nearby result, in the order searchNearbyPlaces
\* returned them, followed by exactly the autocomplete results whose placeId no
\* nearby result has, in the order searchAutocomplete returned them.  An
\* invocation that called neither search (no origin, or a build without an API
\* key) has the empty list in that place.
C1_MergedSuggestions ==
    [][ /\ \A i \in 1..Len(searches), response \in MergeNearbyResponses :
            (queryRef = searches[i].q /\ nearbyReturns(i, response)) =>
                IsMergeOf(suggestions',
                          searchNearbyPlaces(searches[i].origin, response),
                          searches[i].autocompleteResults)
        /\ \A i \in 1..Len(searches), response \in MergeAutocompleteResponses :
            (queryRef = searches[i].q /\ searches[i].origin = Null
                /\ autocompleteReturns(i, response)) =>
                IsMergeOf(suggestions', <<>>, searchAutocomplete(searches[i].q, response))
        /\ \A t \in timers :
            (apiKey = "" /\ queryRef = t.value /\ timerFires(t.id)) =>
                IsMergeOf(suggestions', <<>>, <<>>)
        /\ \A searchTerm \in QuickTerms :
            (apiKey = "" /\ handleQuickSearch(searchTerm)) =>
                IsMergeOf(suggestions', <<>>, <<>>)
      ]_vars

\* two nearby results and two autocomplete results came back, one of them dropped
C1_Witness ==
    /\ Stored
    /\ Len(merged.nearbyResults) = 2
    /\ Len(merged.autocompleteResults) = 2
    /\ Len(suggestions) = 3

\* C2 as stated: in the list executeSearch stores, no placeId occurs in more
\* than one entry.
C2_NoPlaceIdTwice == Stored => NoRepeatedPlaceId(suggestions)

\* C2: in the list executeSearch stores, no placeId occurs both in an entry
\* taken from the nearby results and in an entry taken from the autocomplete
\* results; and when neither returned list repeats a placeId, no placeId occurs
\* in more than one entry.
C2_NoPlaceIdInBothSources ==
    Stored =>
        /\ \A i \in 1..Len(merged.nearbyResults) :
            \A j \in (Len(merged.nearbyResults) + 1)..Len(suggestions) :
                suggestions[i].placeId # suggestions[j].placeId
        /\ (NoRepeatedPlaceId(merged.nearbyResults)
                /\ NoRepeatedPlaceId(merged.autocompleteResults))
            => NoRepeatedPlaceId(suggestions)

\* neither list repeats a placeId and the lists share one
C2_Witness ==
    /\ Stored
    /\ NoRepeatedPlaceId(merged.nearbyResults)
    /\ NoRepeatedPlaceId(merged.autocompleteResults)
    /\ \E k \in 1..Len(merged.autocompleteResults) :
          merged.autocompleteResults[k].placeId \in NearbyIds(merged.nearbyResults)

HasDistance(e) == e.distanceMeters # NoDistance

\* C3 as stated: of two suggestions of the stored list that both carry a
\* distanceMeters, the one with the smaller distance comes first.
C3_RankedByDistance ==
    Stored =>
        \A i, j \in 1..Len(suggestions) :
            (HasDistance(suggestions[i]) /\ HasDistance(suggestions[j])
                /\ suggestions[i].distanceMeters < suggestions[j].distanceMeters)
            => i < j

\* C3: in the stored list the entries taken from the nearby results come first,
\* in non-decreasing distanceMeters; the entries taken from the autocomplete
\* results follow them in the order searchAutocomplete returned them, whatever
\* their distanceMeters.
C3_NearbyFirstByDistance ==
    Stored =>
        /\ Len(suggestions) >= Len(merged.nearbyResults)
        /\ \A i, j \in 1..Len(merged.nearbyResults) :
            i < j => suggestions[i].distanceMeters <= suggestions[j].distanceMeters
        /\ \A k \in 1..(Len(suggestions) - Len(merged.nearbyResults)) :
            IsAutocompleteEntry(
                suggestions[Len(merged.nearbyResults) + k],
                KeptAutocomplete(merged.nearbyResults, merged.autocompleteResults)[k])

\* an autocomplete entry follows a nearby entry that is farther away than it
C3_Witness ==
    /\ Stored
    /\ \E i \in 1..Len(merged.nearbyResults) :
        \E j \in (Len(merged.nearbyResults) + 1)..Len(suggestions) :
            /\ HasDistance(suggestions[j])
            /\ suggestions[j].distanceMeters < suggestions[i].distanceMeters
    /\ \E i, j \in 1..Len(merged.nearbyResults) :
            suggestions[i].distanceMeters < suggestions[j].distanceMeters

Occurrences(s, x) == Cardinality({i \in 1..Len(s) : s[i] = x})
IsPermutation(s, t) ==
    /\ Len(s) = Len(t)
    /\ \A x \in Range(s) \cup Range(t) : Occurrences(s, x) = Occurrences(t, x)

\* the places of the API response, as searchNearbyPlaces renders them
ResponsePlaces(call) ==
    IF call.response.kind = "ok"
    THEN [i \in 1..Len(call.response.list) |->
            NearbyPlaceResult(call.location, call.response.list[i])]
    ELSE <<>>

\* C4: the list searchNearbyPlaces returns is in non-decreasing distanceMeters,
\* each distanceMeters being the distance from the search origin, and it is a
\* permutation of the places the API response contained.
C4_NearbySortedPermutation ==
    lastOp.name = "searchNearbyPlaces" =>
        /\ \A i, j \in 1..Len(ret.val) :
            i < j => ret.val[i].distanceMeters <= ret.val[j].distanceMeters
        /\ \A i \in 1..Len(ret.val) :
            ret.val[i].distanceMeters =
                calculateDistance(nearbyCall.location.lat, nearbyCall.location.lng,
                                  ret.val[i].latitude, ret.val[i].longitude)
        /\ IsPermutation(ret.val, ResponsePlaces(nearbyCall))

\* three places came back and the sort moved the first of them
C4_Witness ==
    /\ lastOp.name = "searchNearbyPlaces"
    /\ Len(ret.val) = 3
    /\ ret.val[1].distanceMeters < ret.val[3].distanceMeters
    /\ ret.val[1] # ResponsePlaces(nearbyCall)[1]

\* C5: a debounce timer runs executeSearch(v) only when the last input call was
\* handleInputChange(v) and lies DEBOUNCE_MS or more back; every
\* handleInputChange and handleQuickSearch call cancels the timers pending
\* before it; at most one debounce timer is pending at any moment.
C5_Debounce ==
    /\ [](Cardinality(timers) <= 1)
    /\ [][ /\ \A t \in timers :
                timerFires(t.id) =>
                    /\ lastInput = [fn |-> "handleInputChange", value |-> t.value]
                    /\ sinceInput >= DEBOUNCE_MS
           /\ \A value \in TypedValues :
                handleInputChange(value) =>
                    \A t \in timers : \A u \in timers' : u.id # t.id
           /\ \A searchTerm \in QuickTerms :
                handleQuickSearch(searchTerm) => timers' = {}
         ]_vars

\* the timer of the second value typed has fired
C5_Witness ==
    /\ lastOp = Called("debounceTimer", "fired")
    /\ timersCreated >= 2
    /\ debounceRef = timersCreated
    /\ lastInput = [fn |-> "handleInputChange", value |-> <<"b">>]
    /\ sinceInput = DEBOUNCE_MS

----------------------------------------------------------------------------
(* Claims about SearchPage's initial location *)

\* one of the three outcomes of the initial-location effect arrives
LocationOutcome ==
    \/ locationTimeoutFires
    \/ \E position \in GeolocationFixes : getCurrentPositionReturns(position)
    \/ \E location \in PermissionStates \ {"granted"} : requestPermissionsReturns(location)
    \/ geolocationRejects

\* C14: the initial-location effect assigns mapPosition at most once.  The
\* first outcome while mounted sets it (timeout: the default position;
\* success: the fix; denial or failure: the default position); an outcome that
\* arrives later, or after unmount, leaves mapPosition and
\* isLoadingInitialLocation as they are.
C14_PositionSetOnce ==
    /\ [](positionAssignments <= 1)
    /\ [][ (LocationOutcome /\ (positionSet \/ ~isMounted)) =>
                UNCHANGED <<mapPosition, isLoadingInitialLocation>> ]_vars
    /\ [][ (isMounted /\ ~positionSet) =>
            /\ locationTimeoutFires => mapPosition' = DEFAULT_POSITION
            /\ \A position \in GeolocationFixes :
                    getCurrentPositionReturns(position) => mapPosition' = position
            /\ \A location \in PermissionStates \ {"granted"} :
                    requestPermissionsReturns(location) => mapPosition' = DEFAULT_POSITION
            /\ geolocationRejects => mapPosition' = DEFAULT_POSITION ]_vars

\* the fix arrived after the timer had fired and the default position stayed
C14_Witness ==
    /\ lastOp = Called("getCurrentPosition", "resolved")
    /\ locationTimeout.state = "fired"
    /\ isMounted
    /\ mapPosition = DEFAULT_POSITION
    /\ ~isLoadingInitialLocation
    /\ positionAssignments = 1

\* C15: while SearchPage stays mounted, isLoadingInitialLocation is false and
\* mapPosition is set at the latest when the 3-second timer fires, and that
\* comes about whether or not the permission or position call ever settles.
C15_ResolvedByTimeout ==
    /\ [][ (locationTimeoutFires /\ isMounted) =>
                (~isLoadingInitialLocation' /\ mapPosition' # Null) ]_vars
    /\ [](isMounted /\ locationTimeout.state # "pending" =>
                (~isLoadingInitialLocation /\ mapPosition # Null))
    /\ <>(~isMounted \/ (~isLoadingInitialLocation /\ mapPosition # Null))

\* the timer fired while checkPermissions was still being awaited
C15_Witness ==
    /\ lastOp = Called("locationTimeout", "fired")
    /\ geolocation = "checkPermissions"
    /\ isMounted
    /\ mapPosition = DEFAULT_POSITION
    /\ ~isLoadingInitialLocation

----------------------------------------------------------------------------
(* Claims about InteractiveMap *)

\* C11: the first location fix sets smoothLocation to that fix at once and
\* requests no animation frame; and, fixes having stopped, smoothLocation
\* becomes equal to the latest fix after finitely many animation frames and
\* from then on no animation frame is pending.
C11_SmoothingTerminates ==
    /\ [][ \A position \in Fixes :
              (currentLocation = Null /\ watchPositionFix(position)) =>
                  (smoothLocation' = position /\ frames' = {}) ]_vars
    /\ <>[](frames = {} /\ smoothLocation = currentLocation)

\* a later fix has been reached by animation, and no frame is pending
C11_Witness ==
    /\ fixCount >= 2
    /\ frames = {}
    /\ animationFrameRef # NoFrame
    /\ currentLocation = Location(400, 0 - 300)
    /\ smoothLocation = currentLocation

\* C12: the long-press action runs only from the timer of a press whose
\* single-finger touchstart lies LONG_PRESS_MS or more back and which has seen,
\* since that touchstart, no touchend or touchcancel on the map and no touchmove
\* that displaced its finger by more than MOVE_THRESHOLD px on either axis.
C12_LongPressOnlyUncancelled ==
    [][ \A t \in pressTimers, hasBounds \in BOOLEAN :
            (longPressTimerFires(t.id, hasBounds)
                /\ lastOp' = Called("longPressTimer", "handleLongPressAt")) =>
                (t.age >= LONG_PRESS_MS /\ ~t.cancelled) ]_vars

\* the pin was moved by a long press that began away from the origin, after a
\* touchmove that stayed within the threshold
C12_Witness ==
    /\ lastOp = Called("longPressTimer", "handleLongPressAt")
    /\ marker = Point(0, 20)
    /\ Len(touches) = 1
    /\ touches[1].onMap
    /\ Point(touches[1].x, touches[1].y) = Point(10, 20)

\* C13: once a deviceorientationabsolute event has been received, a relative
\* deviceorientation event leaves the heading as it is; and an absolute event
\* whose alpha lies in [0, 360] sets the heading to (360 - alpha) mod 360, a
\* value in [0, 360).
C13_HeadingFromAbsolute ==
    [][ /\ \A compassHeading \in CompassHeadings :
            (absoluteReceived /\ deviceorientation(compassHeading)) => heading' = heading
        /\ \A alpha \in Alphas \ {Null} :
            (/\ deviceorientationabsolute(alpha)
             /\ "handleAbsoluteOrientation" \in orientationListeners
             /\ alpha.value \in 0..360) =>
                (/\ heading' = Number((360 - alpha.value) % 360)
                 /\ heading'.value \in 0..359) ]_vars

\* a relative event carrying a compass heading arrived after the absolute
\* event with alpha 0 or 360 and the heading is still 0
C13_Witness ==
    /\ absoluteReceived
    /\ lastOp = Called("deviceorientation", Number(200))
    /\ heading = Number(0)
    /\ hasOrientationSensor

----------------------------------------------------------------------------
(* Claims about the storage module and the place form *)

CustomCount(tabs) == Len(CustomTabsOf(tabs))

\* C6: starting from empty storage, after any sequence of addCustomTab, updateTab,
\* deleteTab and getTabs calls there are at most 5 custom tabs, in storage and in
\* what getTabs returns; addCustomTab called with 5 custom tabs stored returns null
\* and leaves the stored tab list unchanged.
C6_CustomTabLimit ==
    /\ [](CustomCount(storedTabs) <= 5 /\ CustomCount(TabsShown) <= 5)
    /\ [][\A name \in NewTabNames :
            (CustomCount(storedTabs) = 5 /\ addCustomTab(name))
                => (ret' = Null /\ storedTabs' = storedTabs)]_vars

C6_Witness ==
    /\ lastOp.name = "addCustomTab"
    /\ ret = Null
    /\ CustomCount(storedTabs) = 5

\* C7: updateTab(id, name) with the id of a default tab returns null, deleteTab(id)
\* with the id of a default tab returns false, and in both cases the list getTabs
\* returns and the stored places are the same before and after the call.
C7_DefaultTabsFixed ==
    [][\A id \in DefaultTabIds :
          /\ lastOp'.name = "updateTab" =>
                \A name \in RenameNames :
                    updateTab(id, name)
                        => (ret' = Null /\ TabsShown' = TabsShown /\ places' = places)
          /\ lastOp'.name = "deleteTab" =>
                (deleteTab(id)
                    => (ret' = BoolRet(FALSE) /\ TabsShown' = TabsShown /\ places' = places))]_vars

C7_Witness ==
    /\ lastOp = Called("updateTab", "default")
    /\ ret = Null
    /\ CustomCount(storedTabs) > 0
    /\ places # <<>>

\* C8: when deleteTab(id) succeeds, getTabs no longer returns the tab, every place
\* whose tabId was id has tabId 'frequent', no place is added or removed, and every
\* place whose tabId was not id is unchanged.
C8_DeleteTabEffect ==
    [][\A id \in DeleteIds :
          (ret' = BoolRet(TRUE) /\ deleteTab(id))
              => /\ id \notin TabIds(TabsShown')
                 /\ Len(places') = Len(places)
                 /\ \A i \in 1..Len(places) :
                        IF places[i].tabId = id
                        THEN places'[i].tabId = "frequent"
                        ELSE places'[i] = places[i]]_vars

\* C9: savePlace(p) appends exactly one place whose name, memo, address, latitude,
\* longitude and tabId are those of p, whose id is not a stored id and whose
\* createdAt equals its updatedAt; the places stored before are unchanged, and
\* getPlaceById of the returned id yields the new place.
C9_SavePlaceAppends ==
    [][\A p \in PlaceInputs :
          savePlace(p)
              => /\ Len(places') = Len(places) + 1
                 /\ SubSeq(places', 1, Len(places)) = places
                 /\ \E n \in {places'[Len(places')]} :
                        /\ n.name = p.name /\ n.memo = p.memo /\ n.address = p.address
                        /\ n.latitude = p.latitude /\ n.longitude = p.longitude
                        /\ n.tabId = p.tabId
                        /\ n.id \notin PlaceIds(places)
                        /\ n.createdAt = n.updatedAt
                        /\ ret' = ValRet(n)
                        /\ GetPlaceById(places', ret'.val.id) = ValRet(n)]_vars

C9_Witness ==
    /\ lastOp.name = "savePlace"
    /\ Len(places) = 2
    /\ places[2].tabId = "work"
    /\ places[1].createdAt < places[2].createdAt

\* C10: handleSave with a name that is empty after trimming sets the name error,
\* calls neither savePlace nor updatePlace, leaves storage as it was and stays on
\* the page.
C10_NameRequired ==
    [][(Trim(form.name) = <<>> /\ handleSave)
          => /\ "name" \in formErrors'
             /\ lastOp'.name \notin {"savePlace", "updatePlace"}
             /\ places' = places
             /\ storedTabs' = storedTabs
             /\ route' = "place"]_vars

C10_Witness ==
    /\ lastOp = Called("handleSave", "invalid")
    /\ form.name # <<>>
    /\ formErrors = {"name"}
    /\ route = "place"
    /\ places # <<>>

\* the queries an addSearchHistory call may carry
HistoryQueries == 1..(historyCalls.new + 1)

\* no two entries of the history have the same query
DistinctQueries(history) ==
    \A i, j \in 1..Len(history) : history[i].query = history[j].query => i = j

\* the entries of `after` behind its first are entries of `before`, none with
\* the query `query`, in the order they have in `before`
KeepsOrder(before, after, text) ==
    /\ \A i \in 2..Len(after) :
            after[i].query # text /\ \E k \in 1..Len(before) : before[k] = after[i]
    /\ \A i \in 2..(Len(after) - 1) :
            \E k \in 1..Len(before) :
                before[k] = after[i] /\ \E l \in (k + 1)..Len(before) : before[l] = after[i + 1]

\* C16 as stated: after any sequence of addSearchHistory and clearSearchHistory
\* calls the history has at most SEARCH_HISTORY_LIMIT entries, no query twice,
\* and the query of the most recent addSearchHistory call is its first entry.
C16_LastAddedFirst ==
    /\ Len(searchHistory) <= SEARCH_HISTORY_LIMIT
    /\ DistinctQueries(searchHistory)
    /\ lastAdded # <<>> => (searchHistory # <<>> /\ searchHistory[1].query = lastAdded[1])

\* C16, amended: the history has at most SEARCH_HISTORY_LIMIT entries and no
\* query twice; addSearchHistory puts its query first and keeps the other
\* entries in their order; the history is empty (cleared since) or begins with
\* the query of the most recent addSearchHistory call.
C16_HistoryInvariant ==
    /\ [](Len(searchHistory) <= SEARCH_HISTORY_LIMIT /\ DistinctQueries(searchHistory))
    /\ [](lastAdded # <<>> =>
            (searchHistory = <<>> \/ searchHistory[1].query = lastAdded[1]))
    /\ [][ \A text \in HistoryQueries, placeId \in {<<>>, <<"place">>} :
                addSearchHistory(text, placeId) =>
                    /\ searchHistory'[1].query = text
                    /\ searchHistory'[1].placeId = placeId
                    /\ KeepsOrder(searchHistory, searchHistory', text) ]_vars
    /\ [][ clearSearchHistory => searchHistory' = <<>> ]_vars

\* a full history lost its oldest entry to a new query, and then an entry
\* from further back was added again and moved to the front
C16_Witness ==
    /\ Len(searchHistory) = SEARCH_HISTORY_LIMIT
    /\ historyCalls.new > SEARCH_HISTORY_LIMIT
    /\ historyCalls.again > 0
    /\ lastAdded = <<searchHistory[1].query>>
    /\ searchHistory[1].placeId = <<"place">>
    /\ searchHistory[1].query < searchHistory[2].query
    /\ \A i \in 1..Len(searchHistory) : searchHistory[i].query # 1

\* what updatePlace(id, u) does to the places that do not have the id, to the
\* id and createdAt of the one that has it, and what it returns
UpdatePlaceFrame(id, u) ==
    IF id \notin PlaceIds(places)
    THEN /\ ret' = Null
         /\ UNCHANGED <<places, storedTabs, searchHistory>>
    ELSE /\ Len(places') = Len(places)
         /\ UNCHANGED <<storedTabs, searchHistory>>
         /\ \A i \in 1..Len(places) :
                IF places[i].id # id
                THEN places'[i] = places[i]
                ELSE /\ places'[i].id = id
                     /\ places'[i].createdAt = places[i].createdAt
                     /\ ret' = ValRet(places'[i])

\* C17 as stated: updatePlace with an id that is not stored returns null and
\* leaves storage as it was; with a stored id it changes only that place, keeps
\* its id and createdAt, and the place then has every given field.
C17_UpdatePlaceAppliesAll ==
    [][ \A id \in PlaceCallIds, u \in UpdateInputs :
            updatePlace(id, u) =>
                /\ UpdatePlaceFrame(id, u)
                /\ \A i \in 1..Len(places) :
                        places[i].id = id => \A f \in u.fields : places'[i][f] = u.vals[f] ]_vars

\* C17, amended: as above, but of the given fields only those other than
\* updatedAt are applied; updatedAt becomes the current time whether given or
\* not, and a field that is not given keeps its value.
C17_UpdatePlaceEffect ==
    [][ \A id \in PlaceCallIds, u \in UpdateInputs :
            updatePlace(id, u) =>
                /\ UpdatePlaceFrame(id, u)
                /\ \A i \in 1..Len(places) :
                        places[i].id = id =>
                            /\ places'[i].updatedAt = clock
                            /\ \A f \in UpdatableFields \ {"updatedAt"} :
                                    places'[i][f] = IF f \in u.fields THEN u.vals[f]
                                                    ELSE places[i][f] ]_vars

\* the first of two places was renamed after the clock had moved on
C17_Witness ==
    /\ lastOp = Called("updatePlace", "stored")
    /\ Len(places) = 2
    /\ places[1].name = <<"b">>
    /\ places[1].updatedAt > places[1].createdAt
    /\ places[2].name = <<"a">>
    /\ ret = ValRet(places[1])

\* C18: deletePlace with an id that is not stored returns false and leaves
\* storage as it was; with a stored id it returns true, getPlaceById of that id
\* is then undefined, and the other places stay, unchanged and in their order.
C18_DeletePlaceEffect ==
    [][ \A id \in PlaceCallIds :
            deletePlace(id) =>
                IF id \notin PlaceIds(places)
                THEN /\ ret' = BoolRet(FALSE)
                     /\ UNCHANGED <<places, storedTabs, searchHistory>>
                ELSE /\ ret' = BoolRet(TRUE)
                     /\ GetPlaceById(places', id) = Undefined
                     /\ UNCHANGED <<storedTabs, searchHistory>>
                     /\ \E k \in 1..Len(places) :
                            places[k].id = id /\ places' = RemoveAt(places, k) ]_vars

\* the first of two places was deleted and the second is the one left
C18_Witness ==
    /\ lastOp = Called("deletePlace", "stored")
    /\ ret = BoolRet(TRUE)
    /\ placeUuids = 2
    /\ Len(places) = 1
    /\ places[1].id = PlaceUuid(2)

====
